---- MODULE Spec2Model ----
(***************************************************************************)
(* A model of the Risor bytecode pipeline (Rust implementation):           *)
(*   - the symbol table / scope manager (risor-compiler/symbol_table.rs),  *)
(*   - the bytecode compiler (risor-compiler/compiler.rs),                 *)
(*   - the virtual machine (risor-vm/vm.rs, frame.rs, object.rs).          *)
(* Instruction pointers, offsets and slot indices are 0-based as in the    *)
(* source; TLA+ sequences are 1-based, so slot i of a Vec v is v[i + 1].   *)
(***************************************************************************)
EXTENDS Integers, Sequences, FiniteSets, TLC

\* usize::MAX is not representable; -1 is distinct from every valid offset.
USIZE_MAX == -1

\* ------------------------------------------------------------------------
\* Bounds of the scope-manager exploration.
MaxScopes == 4
MaxSymbols == 2
MaxIndex == 4
Names == {"a", "b"}

\* ------------------------------------------------------------------------
\* Symbol table (symbol_table.rs)
\* ------------------------------------------------------------------------

Symbol(name, index, is_constant) ==
    [name |-> name, index |-> index, is_constant |-> is_constant]

\* A Resolution that takes a root binding for a local of the root
Resolution_root_local(symbol, scope, depth, free_index) ==
    [symbol |-> symbol, scope |-> IF scope = "Global" THEN "Local" ELSE scope,
     depth |-> depth, free_index |-> free_index]

Resolution(symbol, scope, depth, free_index) ==
    [symbol |-> symbol, scope |-> scope, depth |-> depth, free_index |-> free_index]

\* Option<Resolution>::None
NoneRes == Resolution(Symbol("", 0, FALSE), "None", 0, USIZE_MAX)

IsSome(res) == res.scope # "None"

SymbolTable_new(is_block) ==
    [is_block |-> is_block,
     symbols_by_name |-> << >>,
     free_by_name |-> << >>,
     symbols |-> << >>,
     free_vars |-> << >>]

MapInsert(m, k, v) == [x \in (DOMAIN m) \cup {k} |-> IF x = k THEN v ELSE m[x]]

\* An insert_variable that declares the name again without looking it up.
insert_variable_again(t, name) ==
    LET symbol == Symbol(name, Len(t.symbols), FALSE)
    IN [symbol |-> symbol,
        table |-> [t EXCEPT !.symbols_by_name = MapInsert(@, name, symbol),
                            !.symbols = Append(@, symbol)]]

\* SymbolTable::insert_variable: returns the symbol and the updated table.
\* (symbols.len() as u16 is the length itself for the scopes of this model.)
insert_variable(t, name) ==
    IF name \in DOMAIN t.symbols_by_name
    THEN [symbol |-> t.symbols_by_name[name], table |-> t]
    ELSE LET symbol == Symbol(name, Len(t.symbols), FALSE)
         IN [symbol |-> symbol,
             table |-> [t EXCEPT !.symbols_by_name = MapInsert(@, name, symbol),
                                 !.symbols = Append(@, symbol)]]

\* Index (1-based) of the first symbol of the list with the given name, 0 if none.
FirstNamed(symbols, name) ==
    IF \E i \in 1..Len(symbols) : symbols[i].name = name
    THEN CHOOSE i \in 1..Len(symbols) :
            /\ symbols[i].name = name
            /\ \A j \in 1..(i - 1) : symbols[j].name # name
    ELSE 0

\* SymbolTable::insert_constant
\* An insert_constant that leaves the binding assignable
insert_constant_assignable(t, name) == insert_variable(t, name)

insert_constant(t, name) ==
    LET r == insert_variable(t, name)
        t1 == IF name \in DOMAIN r.table.symbols_by_name
              THEN [r.table EXCEPT !.symbols_by_name[name].is_constant = TRUE]
              ELSE r.table
        i == FirstNamed(t1.symbols, name)
        t2 == IF i # 0 THEN [t1 EXCEPT !.symbols[i].is_constant = TRUE] ELSE t1
    IN [symbol |-> [r.symbol EXCEPT !.is_constant = TRUE], table |-> t2]

\* SymbolTable::claim_slot
claim_slot(t) ==
    [index |-> Len(t.symbols),
     table |-> [t EXCEPT !.symbols = Append(@, Symbol("_", Len(t.symbols), FALSE))]]

local_count(t) == Len(t.symbols)

free_count(t) == Len(t.free_vars)

\* SymbolTable::add_free_var: returns the upvalue index and the updated table.
\* An add_free_var that does not remember the name
add_free_var_unnamed(t, name, resolution) ==
    [index |-> Len(t.free_vars),
     table |-> [t EXCEPT !.free_vars =
                    Append(@, [resolution EXCEPT !.free_index = Len(t.free_vars)])]]

add_free_var(t, name, resolution) ==
    IF name \in DOMAIN t.free_by_name
    THEN [index |-> t.free_by_name[name].free_index, table |-> t]
    ELSE LET index == Len(t.free_vars)
             res == [resolution EXCEPT !.free_index = index]
         IN [index |-> index,
             table |-> [t EXCEPT !.free_by_name = MapInsert(@, name, res),
                                 !.free_vars = Append(@, res)]]

\* ScopeManager::new
ScopeManager_new == << SymbolTable_new(FALSE) >>

is_root(sc) == Len(sc) = 1

enter_function(sc) == Append(sc, SymbolTable_new(FALSE))

enter_block(sc) == Append(sc, SymbolTable_new(TRUE))

\* ScopeManager::exit_scope (panics on the root scope: callers guard on Len > 1)
exit_scope(sc) == SubSeq(sc, 1, Len(sc) - 1)

WithCurrent(sc, t) == [sc EXCEPT ![Len(sc)] = t]

\* ScopeManager::resolve_with_depth: returns the resolution and the scope
\* stack with the upvalues recorded on the way back.
RECURSIVE resolve_with_depth(_, _, _)
resolve_with_depth(sc, name, depth) ==
    LET scope_count == Len(sc) IN
    IF scope_count = 0 THEN [res |-> NoneRes, scopes |-> sc]
    ELSE
    LET cur == sc[scope_count]
        root == scope_count = 1
        is_block == cur.is_block
    IN
    IF name \in DOMAIN cur.symbols_by_name
    THEN [res |-> Resolution(cur.symbols_by_name[name],
                             IF root THEN "Global" ELSE "Local", 0, USIZE_MAX),
          scopes |-> sc]
    ELSE IF name \in DOMAIN cur.free_by_name
    THEN [res |-> cur.free_by_name[name], scopes |-> sc]
    ELSE IF scope_count > 1
    THEN LET new_depth == IF is_block THEN depth ELSE depth + 1
             parent == resolve_with_depth(SubSeq(sc, 1, scope_count - 1), name, new_depth)
             restored == Append(parent.scopes, cur)
         IN IF IsSome(parent.res)
            THEN IF is_block THEN [res |-> parent.res, scopes |-> restored]
                 ELSE IF parent.res.scope = "Global"
                 THEN [res |-> parent.res, scopes |-> restored]
                 ELSE LET a == add_free_var(cur, name,
                                   Resolution(parent.res.symbol, "Free",
                                              parent.res.depth + 1, 0))
                      IN [res |-> Resolution(parent.res.symbol, "Free",
                                             parent.res.depth + 1, a.index),
                          scopes |-> Append(parent.scopes, a.table)]
            ELSE [res |-> NoneRes, scopes |-> restored]
    ELSE [res |-> NoneRes, scopes |-> sc]

\* A resolve that looks at the current scope only
resolve_current_only(sc, name) ==
    [res |-> resolve_with_depth(<< sc[Len(sc)] >>, name, 0).res, scopes |-> sc]

\* ScopeManager::resolve
resolve(sc, name) == resolve_with_depth(sc, name, 0)

\* ------------------------------------------------------------------------
\* Opcodes (risor-bytecode/opcode.rs)
\* ------------------------------------------------------------------------
Op_Halt == 2
Op_Call == 3
Op_ReturnValue == 4
Op_JumpForward == 11
Op_PopJumpForwardIfFalse == 12
Op_PopJumpForwardIfNotNil == 14
Op_LoadAttr == 20
Op_LoadFast == 21
Op_LoadFree == 22
Op_LoadGlobal == 23
Op_LoadConst == 24
Op_LoadAttrOrNil == 25
Op_StoreFast == 31
Op_StoreFree == 32
Op_StoreGlobal == 33
Op_BinaryOp == 40
Op_CompareOp == 41
Op_BuildList == 50
Op_BuildMap == 51
Op_BinarySubscr == 60
Op_StoreSubscr == 61
Op_Slice == 64
Op_Unpack == 65
Op_Swap == 70
Op_Copy == 71
Op_PopTop == 72
Op_Nil == 80
Op_False == 81
Op_True == 82
Op_LoadClosure == 120
Op_MakeCell == 121
Op_PushExcept == 140
Op_PopExcept == 141
Op_Throw == 142
Op_EndFinally == 143

BinaryOpType_Add == 0
BinaryOpType_Subtract == 1
BinaryOpType_Divide == 3
BinaryOpType_Modulo == 4

\* Placeholder value for forward jumps, and the "no handler" operand.
CompareOpType_Lt == 0
CompareOpType_LtEquals == 1
CompareOpType_Eq == 2
CompareOpType_NotEq == 3
CompareOpType_Gt == 4
CompareOpType_GtEquals == 5

PLACEHOLDER == 65535

\* ------------------------------------------------------------------------
\* Constants and code builders (risor-bytecode/code.rs)
\* ------------------------------------------------------------------------

\* Constant pool entries.  A Function constant holds the index of its code
\* unit in the table of finished units (the Rc<Code> pointer of the source).
Constant_Int(n) == [t |-> "Int", n |-> n, s |-> ""]
Constant_String(s) == [t |-> "String", n |-> 0, s |-> s]
Constant_Function(id) == [t |-> "Function", n |-> id, s |-> ""]

\* A Float constant is held by its bit pattern (f64::to_bits, in hexadecimal).
Constant_Float(bits) == [t |-> "Float", n |-> 0, s |-> bits]

F64_Zero == "0000000000000000"
F64_NegZero == "8000000000000000"
F64_NaN == "7ff8000000000000"
F64_Half == "3fe0000000000000"

\* f64 ==: NaN equals nothing, the two zeros equal each other.
F64_Eq(a, b) ==
    /\ a # F64_NaN
    /\ b # F64_NaN
    /\ a = b \/ {a, b} = {F64_Zero, F64_NegZero}

CodeBuilder_new ==
    [instructions |-> << >>, constants |-> << >>, names |-> << >>,
     exception_handlers |-> << >>]

\* Index (0-based) of the first element of seq equal to v, -1 if none.
IndexOf(seq, v) ==
    IF \E i \in 1..Len(seq) : seq[i] = v
    THEN (CHOOSE i \in 1..Len(seq) :
             seq[i] = v /\ \A j \in 1..(i - 1) : seq[j] # v) - 1
    ELSE -1

\* An add_constant whose lookup compares Float constants as numbers.
add_constant_numeric(b, value) ==
    IF \E i \in 1..Len(b.constants) :
          IF value.t = "Float" /\ b.constants[i].t = "Float"
          THEN F64_Eq(b.constants[i].s, value.s)
          ELSE b.constants[i] = value
    THEN [index |-> (CHOOSE i \in 1..Len(b.constants) :
                        IF value.t = "Float" /\ b.constants[i].t = "Float"
                        THEN F64_Eq(b.constants[i].s, value.s)
                        ELSE b.constants[i] = value) - 1,
          builder |-> b]
    ELSE [index |-> Len(b.constants),
          builder |-> [b EXCEPT !.constants = Append(@, value)]]

\* CodeBuilder::add_constant. Constant::eq is the equality of these records:
\* by value for Int and String, by bit pattern for Float, by code unit
\* (Rc::ptr_eq) for Function.
add_constant(b, value) ==
    IF IndexOf(b.constants, value) >= 0
    THEN [index |-> IndexOf(b.constants, value), builder |-> b]
    ELSE [index |-> Len(b.constants),
          builder |-> [b EXCEPT !.constants = Append(@, value)]]

\* CodeBuilder::add_name
add_name(b, name) ==
    IF IndexOf(b.names, name) >= 0
    THEN [index |-> IndexOf(b.names, name), builder |-> b]
    ELSE [index |-> Len(b.names),
          builder |-> [b EXCEPT !.names = Append(@, name)]]

\* CodeBuilder::to_code
to_code(b, lc, gc, gnames) ==
    [instructions |-> b.instructions, constants |-> b.constants,
     names |-> b.names, local_count |-> lc, global_count |-> gc,
     global_names |-> gnames,
     exception_handlers |-> b.exception_handlers]

\* ------------------------------------------------------------------------
\* Syntax tree (risor-parser/ast.rs), as produced by the parser
\* ------------------------------------------------------------------------
Some(x) == [some |-> TRUE, v |-> x]
None == [some |-> FALSE, v |-> << >>]

IntLit(value) == [k |-> "Int", value |-> value]
StringLit(value) == [k |-> "String", value |-> value]
NilLit == [k |-> "Nil"]
BoolLit(value) == [k |-> "Bool", value |-> value]
Ident(name) == [k |-> "Ident", name |-> name]
InfixExpr(left, op, right) == [k |-> "Infix", left |-> left, op |-> op, right |-> right]
ListLit(items) == [k |-> "List", items |-> items]
MapItem(key, value) == [key |-> key, value |-> value]
MapLit(items) == [k |-> "Map", items |-> items]
FuncLit(params, body) == [k |-> "Func", params |-> params, body |-> body]
CallExpr(func, args) == [k |-> "Call", func |-> func, args |-> args]
GetAttrExpr(object, attr) == [k |-> "GetAttr", object |-> object, attr |-> attr]
ObjectCallExpr(object, method, args) ==
    [k |-> "ObjectCall", object |-> object, method |-> method, args |-> args]
IndexExpr(object, index) == [k |-> "Index", object |-> object, index |-> index]
SliceExpr(object, low, high) ==
    [k |-> "Slice", object |-> object, low |-> low, high |-> high]
TryExpr(body, catch_ident, catch_block, finally_block) ==
    [k |-> "Try", body |-> body, catch_ident |-> catch_ident,
     catch_block |-> catch_block, finally_block |-> finally_block]

VarStmt(name, value) == [k |-> "Var", name |-> name, value |-> value]
MultiVarStmt(names, value) == [k |-> "MultiVar", names |-> names, value |-> value]
ReturnStmt(value) == [k |-> "Return", value |-> value]
AssignStmt(name, op, value) == [k |-> "Assign", name |-> name, op |-> op, value |-> value]
ThrowStmt(value) == [k |-> "Throw", value |-> value]
IndexAssignStmt(object, index, op, value) ==
    [k |-> "AssignIndex", object |-> object, index |-> index, op |-> op, value |-> value]
ExprStmt(expr) == [k |-> "Expr", expr |-> expr]
PostfixStmt(operand, op) == [k |-> "Postfix", operand |-> operand, op |-> op]
ConstStmt(name, value) == [k |-> "Const", name |-> name, value |-> value]
DestructureBinding(key, alias, default_value) ==
    [key |-> key, alias |-> alias, default_value |-> default_value]
ObjectDestructureStmt(bindings, value) ==
    [k |-> "ObjectDestructure", bindings |-> bindings, value |-> value]
Pattern_Wildcard == [k |-> "Wildcard"]
Pattern_Literal(expr) == [k |-> "Literal", expr |-> expr]
MatchArm(pattern, guard, result) == [pattern |-> pattern, guard |-> guard, result |-> result]
MatchExpr(subject, arms, default_arm) ==
    [k |-> "Match", subject |-> subject, arms |-> arms, default_arm |-> default_arm]

\* ------------------------------------------------------------------------
\* Compiler (risor-compiler/compiler.rs)
\* ------------------------------------------------------------------------

\* The compiler state.  funcs is the table of finished function code units
\* that Constant::Function entries point into.
RECURSIVE InsertAll(_, _, _)
InsertAll(sc, names, i) ==
    IF i > Len(names) THEN sc
    ELSE InsertAll(WithCurrent(sc, insert_variable(sc[Len(sc)], names[i]).table),
                   names, i + 1)

\* Compiler::new
Compiler_new(global_names) ==
    [main |-> CodeBuilder_new,
     current_idx |-> 0,
     children_stack |-> << >>,
     scopes |-> InsertAll(ScopeManager_new, global_names, 1),
     funcs |-> << >>,
     error |-> ""]

\* Compiler::current
current(c) == IF c.current_idx = 0 THEN c.main ELSE c.children_stack[c.current_idx]

SetCurrent(c, b) ==
    IF c.current_idx = 0 THEN [c EXCEPT !.main = b]
    ELSE [c EXCEPT !.children_stack[c.current_idx] = b]

emit(c, opcode) ==
    SetCurrent(c, [current(c) EXCEPT !.instructions = Append(@, opcode)])

emit1(c, opcode, operand) ==
    SetCurrent(c, [current(c) EXCEPT !.instructions = @ \o << opcode, operand >>])

emit2(c, opcode, operand1, operand2) ==
    SetCurrent(c, [current(c) EXCEPT !.instructions = @ \o << opcode, operand1, operand2 >>])

offset(c) == Len(current(c).instructions)

\* CodeBuilder::patch
patch(c, off, value) ==
    SetCurrent(c, [current(c) EXCEPT !.instructions[off + 1] = value])

emit_jump_forward(c, opcode) == emit1(c, opcode, PLACEHOLDER)

patch_jump(c, off) == patch(c, off + 1, offset(c) - off - 2)

report_error(c, message) == IF c.error = "" THEN [c EXCEPT !.error = message] ELSE c

load_resolution(c, resolution) ==
    CASE resolution.scope = "Local" -> emit1(c, Op_LoadFast, resolution.symbol.index)
      [] resolution.scope = "Global" -> emit1(c, Op_LoadGlobal, resolution.symbol.index)
      [] resolution.scope = "Free" -> emit1(c, Op_LoadFree, resolution.free_index)

store_resolution(c, resolution) ==
    CASE resolution.scope = "Local" -> emit1(c, Op_StoreFast, resolution.symbol.index)
      [] resolution.scope = "Global" -> emit1(c, Op_StoreGlobal, resolution.symbol.index)
      [] resolution.scope = "Free" -> emit1(c, Op_StoreFree, resolution.free_index)

store_symbol(c, symbol) ==
    IF is_root(c.scopes) THEN emit1(c, Op_StoreGlobal, symbol.index)
    ELSE emit1(c, Op_StoreFast, symbol.index)

\* self.scopes.insert_variable(name) followed by self.store_symbol(&symbol)
InsertAndStore(c, name) ==
    LET r == insert_variable(c.scopes[Len(c.scopes)], name)
    IN store_symbol([c EXCEPT !.scopes = WithCurrent(@, r.table)], r.symbol)

\* self.scopes.insert_constant(name) followed by self.store_symbol(&symbol)
InsertConstantAndStore(c, name) ==
    LET r == insert_constant(c.scopes[Len(c.scopes)], name)
    IN store_symbol([c EXCEPT !.scopes = WithCurrent(@, r.table)], r.symbol)

\* Some(op) as the operand value, -1 for None
get_binary_op(op) ==
    CASE op = "+" -> BinaryOpType_Add
      [] op = "-" -> BinaryOpType_Subtract
      [] op = "/" -> BinaryOpType_Divide
      [] op = "%" -> BinaryOpType_Modulo
      [] OTHER -> -1

get_compare_op(op) ==
    CASE op = "<" -> CompareOpType_Lt
      [] op = "<=" -> CompareOpType_LtEquals
      [] op = "==" -> CompareOpType_Eq
      [] op = "!=" -> CompareOpType_NotEq
      [] op = ">" -> CompareOpType_Gt
      [] op = ">=" -> CompareOpType_GtEquals
      [] OTHER -> -1

\* Every Expr variant but Try produces a value kept as the program result.
is_expression(expr) == expr.k # "Try"

LoadConstant(c, value) ==
    LET a == add_constant(current(c), value)
    IN emit1(SetCurrent(c, a.builder), Op_LoadConst, a.index)

compile_ident(c, ident) ==
    LET r == resolve(c.scopes, ident.name)
    IN IF ~IsSome(r.res) THEN report_error(c, "undefined variable")
       ELSE load_resolution([c EXCEPT !.scopes = r.scopes], r.res)

RECURSIVE EmitMakeCells(_, _, _)
EmitMakeCells(c, free_vars, i) ==
    IF i > Len(free_vars) THEN c
    ELSE EmitMakeCells(emit2(c, Op_MakeCell, free_vars[i].symbol.index,
                             free_vars[i].depth - 1),
                       free_vars, i + 1)

RECURSIVE compile_expr(_, _)
RECURSIVE compile_exprs(_, _, _)
RECURSIVE compile_statement_with_context(_, _, _)
RECURSIVE compile_stmts(_, _, _)

compile_statement(c, stmt) == compile_statement_with_context(c, stmt, FALSE)

\* report_error keeps the first error and compile then discards the code, so
\* the statements after an error add nothing: the loops stop there.
StmtsFrom(c, stmts, i) == IF c.error # "" THEN c ELSE compile_stmts(c, stmts, i)

\* for stmt in stmts { self.compile_statement(stmt) }
compile_stmts(c, stmts, i) ==
    IF i > Len(stmts) THEN c
    ELSE StmtsFrom(compile_statement(c, stmts[i]), stmts, i + 1)

ExprsFrom(c, exprs, i) == IF c.error # "" THEN c ELSE compile_exprs(c, exprs, i)

\* for arg in args { self.compile_expr(arg) }
compile_exprs(c, exprs, i) ==
    IF i > Len(exprs) THEN c
    ELSE ExprsFrom(compile_expr(c, exprs[i]), exprs, i + 1)

\* let op = get_binary_op(..) else report_error; self.emit1(Op::BinaryOp, op)
emit_binary_op(c, op) ==
    IF get_binary_op(op) >= 0 THEN emit1(c, Op_BinaryOp, get_binary_op(op))
    ELSE IF get_compare_op(op) >= 0 THEN emit1(c, Op_CompareOp, get_compare_op(op))
    ELSE report_error(c, "unknown operator")

\* left ?? right: PopJumpForwardIfNotNil over PopTop and the right operand
nullish_jump(c) ==
    [jump_not_nil |-> offset(c), c |-> emit_jump_forward(c, Op_PopJumpForwardIfNotNil)]

nullish_right(d, expr) ==
    patch_jump(compile_expr(emit(d.c, Op_PopTop), expr.right), d.jump_not_nil)

\* (the short-circuit operators && and || are not part of this model)
compile_infix_expr(c, expr) ==
    IF expr.op = "??"
    THEN nullish_right(nullish_jump(compile_expr(c, expr.left)), expr)
    ELSE emit_binary_op(compile_expr(compile_expr(c, expr.left), expr.right), expr.op)

compile_list_lit(c, expr) ==
    emit1(compile_exprs(c, expr.items, 1), Op_BuildList, Len(expr.items))

compile_call_expr(c, expr) ==
    emit1(compile_exprs(compile_expr(c, expr.func), expr.args, 1),
          Op_Call, Len(expr.args))

\* let name_idx = self.current().add_name(name); self.emit1(opcode, name_idx)
emit_name(c, opcode, name) ==
    emit1(SetCurrent(c, add_name(current(c), name).builder), opcode,
          add_name(current(c), name).index)

compile_get_attr_expr(c, expr) ==
    emit_name(compile_expr(c, expr.object), Op_LoadAttr, expr.attr)

compile_object_call_expr(c, expr) ==
    emit1(compile_exprs(
              emit1(emit_name(emit1(compile_expr(c, expr.object), Op_Copy, 0),
                              Op_LoadAttr, expr.method),
                    Op_Swap, 1),
              expr.args, 1),
          Op_Call, Len(expr.args) + 1)

compile_index_expr(c, expr) ==
    emit1(compile_expr(compile_expr(c, expr.object), expr.index), Op_BinarySubscr, 0)

\* compile_slice_expr: a bound that is left out is Nil
slice_bound(c, bound) ==
    IF bound.some THEN compile_expr(c, bound.v) ELSE emit(c, Op_Nil)

compile_slice_expr(c, expr) ==
    emit2(slice_bound(slice_bound(compile_expr(c, expr.object), expr.low), expr.high),
          Op_Slice, 0, 0)

\* compile_func_lit, entry: a child builder and a function scope holding the
\* parameters.
func_lit_enter(c, func) ==
    [c EXCEPT !.scopes = InsertAll(enter_function(@), func.params, 1),
              !.children_stack = Append(@, CodeBuilder_new),
              !.current_idx = Len(c.children_stack) + 1]

\* compile_func_lit, implicit return of nil unless the body ends in a return
func_lit_return(c, func) ==
    IF Len(func.body) > 0 /\ func.body[Len(func.body)].k = "Return" THEN c
    ELSE emit(emit(c, Op_Nil), Op_ReturnValue)

\* compile_func_lit, the closure: one MakeCell per free variable, then
\* LoadClosure, or LoadConst when nothing is captured.
func_lit_load(c, free_vars, const_index) ==
    IF Len(free_vars) > 0
    THEN emit2(EmitMakeCells(c, free_vars, 1), Op_LoadClosure, const_index,
               Len(free_vars))
    ELSE emit1(c, Op_LoadConst, const_index)

\* The function constant is added to the builder that is current again.
func_lit_constant(c, free_vars) ==
    func_lit_load(SetCurrent(c, add_constant(current(c),
                                    Constant_Function(Len(c.funcs))).builder),
                  free_vars,
                  add_constant(current(c), Constant_Function(Len(c.funcs))).index)

\* compile_func_lit, exit: the scope is left and the child's code is finished.
func_lit_exit(c, parent_idx) ==
    func_lit_constant(
        [c EXCEPT !.scopes = exit_scope(@),
                  !.children_stack = SubSeq(@, 1, Len(@) - 1),
                  !.current_idx = parent_idx,
                  !.funcs = Append(@, to_code(c.children_stack[Len(c.children_stack)],
                                              local_count(c.scopes[Len(c.scopes)]),
                                              0, << >>))],
        c.scopes[Len(c.scopes)].free_vars)

compile_func_lit(c, func) ==
    func_lit_exit(
        func_lit_return(compile_stmts(func_lit_enter(c, func), func.body, 1), func),
        c.current_idx)

\* compile_try_expr keeps these offsets while it emits the regions.
try_start(c, start) ==
    [c |-> c, try_start |-> start, push_except_offset |-> offset(c) - 2,
     jump_after_try |-> 0, catch_start_offset |-> USIZE_MAX,
     jump_after_catch |-> 0, finally_start_offset |-> USIZE_MAX]

\* A try body that pushes no value before PopExcept
try_body_no_value(t, expr) ==
    [t EXCEPT !.c = emit(compile_stmts(t.c, expr.body, 1), Op_PopExcept)]

\* the try body, Nil, PopExcept
try_body(t, expr) ==
    [t EXCEPT !.c = emit(emit(compile_stmts(t.c, expr.body, 1), Op_Nil), Op_PopExcept)]

try_jump_after_try(t) ==
    [t EXCEPT !.jump_after_try = offset(t.c),
              !.c = emit_jump_forward(t.c, Op_JumpForward)]

\* the catch region starts with the store into the catch variable, or PopTop
catch_entry(c, expr) ==
    IF expr.catch_ident.some THEN InsertAndStore(c, expr.catch_ident.v)
    ELSE emit(c, Op_PopTop)

try_catch(t, expr) ==
    IF expr.catch_block.some
    THEN [t EXCEPT !.catch_start_offset = offset(t.c),
                   !.c = emit(compile_stmts(catch_entry(t.c, expr),
                                            expr.catch_block.v, 1), Op_Nil)]
    ELSE t

try_jump_after_catch(t) ==
    [t EXCEPT !.jump_after_catch = offset(t.c),
              !.c = emit_jump_forward(t.c, Op_JumpForward)]

try_finally(t, expr) ==
    IF expr.finally_block.some
    THEN [t EXCEPT !.finally_start_offset = offset(t.c),
                   !.c = emit(compile_stmts(t.c, expr.finally_block.v, 1),
                              Op_EndFinally)]
    ELSE t

\* if let Some(offset) = .. { self.current().patch(at, (offset - base) as u16) }
patch_some(c, at, region, base) ==
    IF region # USIZE_MAX THEN patch(c, at, region - base) ELSE c

\* CodeBuilder::add_exception_handler
add_exception_handler(c, handler) ==
    SetCurrent(c, [current(c) EXCEPT !.exception_handlers = Append(@, handler)])

\* the jumps and the PushExcept operands are patched, the table entry added
try_patch(t, expr) ==
    add_exception_handler(
        patch_some(
            patch_some(patch_jump(patch_jump(t.c, t.jump_after_try), t.jump_after_catch),
                       t.push_except_offset, t.catch_start_offset, t.push_except_offset),
            t.push_except_offset + 1, t.finally_start_offset, t.push_except_offset),
        [start |-> t.try_start,
         end |-> IF t.catch_start_offset # USIZE_MAX THEN t.catch_start_offset
                 ELSE IF t.finally_start_offset # USIZE_MAX THEN t.finally_start_offset
                 ELSE t.try_start,
         catch_offset |-> t.catch_start_offset,
         finally_offset |-> t.finally_start_offset,
         catch_var |-> expr.catch_ident])

compile_try_expr(c, expr) ==
    try_patch(
        try_finally(
            try_jump_after_catch(
                try_catch(
                    try_jump_after_try(
                        try_body(
                            try_start(emit2(c, Op_PushExcept, PLACEHOLDER, PLACEHOLDER),
                                      offset(c)),
                            expr)),
                    expr)),
            expr),
        expr)

\* ---- compile_map_lit, for literals without a spread item ----
\* an identifier key is loaded as a string constant
map_item_key(c, item) ==
    IF item.key.v.k = "Ident" THEN LoadConstant(c, Constant_String(item.key.v.name))
    ELSE compile_expr(c, item.key.v)

RECURSIVE compile_map_items(_, _, _)
compile_map_items(c, items, i) ==
    IF i > Len(items) THEN c
    ELSE compile_map_items(compile_expr(map_item_key(c, items[i]), items[i].value),
                           items, i + 1)

compile_map_lit(c, expr) ==
    emit1(compile_map_items(c, expr.items, 1), Op_BuildMap, Len(expr.items))

\* ---- compile_match_expr ----
\* Copy 0, the literal of a literal pattern, CompareOp Eq
match_arm_test(c, arm) ==
    emit1(IF arm.pattern.k = "Literal"
          THEN compile_expr(emit1(c, Op_Copy, 0), arm.pattern.expr)
          ELSE emit1(c, Op_Copy, 0),
          Op_CompareOp, CompareOpType_Eq)

match_no_match(m) ==
    [m EXCEPT !.jump_no_match = offset(m.c),
              !.c = emit_jump_forward(m.c, Op_PopJumpForwardIfFalse)]

match_no_guard(m) ==
    [m EXCEPT !.jump_no_guard = offset(m.c),
              !.c = emit_jump_forward(m.c, Op_PopJumpForwardIfFalse)]

match_guard(m, arm) ==
    IF arm.guard.some
    THEN match_no_guard([m EXCEPT !.c = compile_expr(m.c, arm.guard.v)])
    ELSE m

match_result(m, arm) ==
    [m EXCEPT !.c = compile_expr(emit(m.c, Op_PopTop), arm.result)]

match_jump_end(m) ==
    [m EXCEPT !.jump_ends = Append(@, offset(m.c)),
              !.c = emit_jump_forward(m.c, Op_JumpForward)]

match_patch(m, arm) ==
    [m EXCEPT !.c = IF arm.guard.some
                    THEN patch_jump(patch_jump(m.c, m.jump_no_match), m.jump_no_guard)
                    ELSE patch_jump(m.c, m.jump_no_match)]

\* one iteration of for arm in &expr.arms
compile_match_arm(m, arm) ==
    match_patch(
        match_jump_end(
            match_result(
                match_guard(
                    match_no_match([m EXCEPT !.c = match_arm_test(m.c, arm)]),
                    arm),
                arm)),
        arm)

RECURSIVE compile_match_arms(_, _, _)
compile_match_arms(m, arms, i) ==
    IF i > Len(arms) THEN m
    ELSE compile_match_arms(compile_match_arm(m, arms[i]), arms, i + 1)

\* A match that ignores its wildcard arm
match_default_nil(c, expr) == emit(emit(c, Op_PopTop), Op_Nil)

\* Default arm

match_default(c, expr) ==
    IF expr.default_arm.some
    THEN compile_expr(emit(c, Op_PopTop), expr.default_arm.v.result)
    ELSE emit(emit(c, Op_PopTop), Op_Nil)

\* for jump in jump_ends { patch_jump(jump) }
RECURSIVE patch_jumps(_, _, _)
patch_jumps(c, jumps, i) ==
    IF i > Len(jumps) THEN c
    ELSE patch_jumps(patch_jump(c, jumps[i]), jumps, i + 1)

match_end(m, expr) == patch_jumps(match_default(m.c, expr), m.jump_ends, 1)

compile_match_expr(c, expr) ==
    match_end(
        compile_match_arms([c |-> compile_expr(c, expr.subject), jump_no_match |-> 0,
                            jump_no_guard |-> 0, jump_ends |-> << >>],
                           expr.arms, 1),
        expr)

compile_expr(c, expr) ==
    CASE expr.k = "Int" -> LoadConstant(c, Constant_Int(expr.value))
      [] expr.k = "String" -> LoadConstant(c, Constant_String(expr.value))
      [] expr.k = "Nil" -> emit(c, Op_Nil)
      [] expr.k = "Bool" -> emit(c, IF expr.value THEN Op_True ELSE Op_False)
      [] expr.k = "Match" -> compile_match_expr(c, expr)
      [] expr.k = "Ident" -> compile_ident(c, expr)
      [] expr.k = "Infix" -> compile_infix_expr(c, expr)
      [] expr.k = "List" -> compile_list_lit(c, expr)
      [] expr.k = "Map" -> compile_map_lit(c, expr)
      [] expr.k = "Func" -> compile_func_lit(c, expr)
      [] expr.k = "Call" -> compile_call_expr(c, expr)
      [] expr.k = "GetAttr" -> compile_get_attr_expr(c, expr)
      [] expr.k = "ObjectCall" -> compile_object_call_expr(c, expr)
      [] expr.k = "Index" -> compile_index_expr(c, expr)
      [] expr.k = "Slice" -> compile_slice_expr(c, expr)
      [] expr.k = "Try" -> compile_try_expr(c, expr)

compile_var_stmt(c, stmt) == InsertAndStore(compile_expr(c, stmt.value), stmt.name)

compile_const_stmt(c, stmt) ==
    InsertConstantAndStore(compile_expr(c, stmt.value), stmt.name)

\* for name in stmt.names.iter().rev() { insert_variable; store_symbol }
RECURSIVE compile_multi_var_stores(_, _, _)
compile_multi_var_stores(c, names, i) ==
    IF i < 1 THEN c
    ELSE compile_multi_var_stores(InsertAndStore(c, names[i]), names, i - 1)

compile_multi_var_stmt(c, stmt) ==
    compile_multi_var_stores(
        emit1(compile_expr(c, stmt.value), Op_Unpack, Len(stmt.names)),
        stmt.names, Len(stmt.names))

\* ---- compile_object_destructure_stmt ----
\* Copy 0; LoadAttrOrNil key
destructure_load(c, binding) ==
    emit_name(emit1(c, Op_Copy, 0), Op_LoadAttrOrNil, binding.key)

\* PopJumpForwardIfNotNil over PopTop and the default value
destructure_default(d, binding) ==
    IF binding.default_value.some
    THEN patch_jump(compile_expr(emit(d.c, Op_PopTop), binding.default_value.v),
                    d.skip_default)
    ELSE d.c

destructure_jump(c, binding) ==
    [skip_default |-> offset(c),
     c |-> IF binding.default_value.some
           THEN emit_jump_forward(c, Op_PopJumpForwardIfNotNil) ELSE c]

\* the variable is the alias, or the key name
destructure_binding(c, binding) ==
    InsertAndStore(
        destructure_default(destructure_jump(destructure_load(c, binding), binding),
                            binding),
        IF binding.alias.some THEN binding.alias.v ELSE binding.key)

RECURSIVE destructure_bindings(_, _, _)
destructure_bindings(c, bindings, i) ==
    IF i > Len(bindings) THEN c
    ELSE destructure_bindings(destructure_binding(c, bindings[i]), bindings, i + 1)

compile_object_destructure_stmt(c, stmt) ==
    emit(destructure_bindings(compile_expr(c, stmt.value), stmt.bindings, 1), Op_PopTop)

\* the returned value, nil when there is none
return_value(c, value) ==
    IF value.some THEN compile_expr(c, value.v) ELSE emit(c, Op_Nil)

compile_return_stmt(c, stmt) == emit(return_value(c, stmt.value), Op_ReturnValue)

compile_compound_op(c, op) ==
    CASE op = "+=" -> emit1(c, Op_BinaryOp, BinaryOpType_Add)
      [] op = "-=" -> emit1(c, Op_BinaryOp, BinaryOpType_Subtract)
      [] op = "/=" -> emit1(c, Op_BinaryOp, BinaryOpType_Divide)
      [] OTHER -> report_error(c, "unknown compound operator")

\* the value to store: the right-hand side, for a compound assignment the
\* old value combined with it
assign_value(c, stmt, res) ==
    IF stmt.op = "=" THEN compile_expr(c, stmt.value)
    ELSE compile_compound_op(compile_expr(load_resolution(c, res), stmt.value), stmt.op)

\* compile_assign_stmt once the target is resolved
assign_resolved(c, stmt, r) ==
    IF ~IsSome(r.res) THEN report_error(c, "undefined variable")
    ELSE IF r.res.symbol.is_constant
    THEN report_error([c EXCEPT !.scopes = r.scopes], "cannot assign to constant")
    ELSE store_resolution(assign_value([c EXCEPT !.scopes = r.scopes], stmt, r.res), r.res)

\* AssignTarget::Ident
compile_assign_stmt(c, stmt) == assign_resolved(c, stmt, resolve(c.scopes, stmt.name))

\* the value to store at an index: the right-hand side, for a compound
\* assignment the old element combined with it
index_assign_value(c, stmt) ==
    IF stmt.op = "=" THEN compile_expr(c, stmt.value)
    ELSE compile_compound_op(
             compile_expr(emit1(emit1(emit1(c, Op_Copy, 1), Op_Copy, 1),
                                Op_BinarySubscr, 0),
                          stmt.value),
             stmt.op)

\* AssignTarget::Index
compile_index_assign_stmt(c, stmt) ==
    emit1(index_assign_value(compile_expr(compile_expr(c, stmt.object), stmt.index), stmt),
          Op_StoreSubscr, 0)

compile_throw_stmt(c, stmt) == emit(compile_expr(c, stmt.value), Op_Throw)

\* compile_postfix_stmt once the operand is resolved: load, add or subtract
\* the constant 1, store back
postfix_resolved(c, stmt, r) ==
    IF ~IsSome(r.res) THEN report_error(c, "undefined variable")
    ELSE store_resolution(
             emit1(LoadConstant(load_resolution([c EXCEPT !.scopes = r.scopes], r.res),
                                Constant_Int(1)),
                   Op_BinaryOp,
                   IF stmt.op = "++" THEN BinaryOpType_Add ELSE BinaryOpType_Subtract),
             r.res)

compile_postfix_stmt(c, stmt) ==
    IF stmt.operand.k # "Ident"
    THEN report_error(c, "postfix operator requires identifier")
    ELSE postfix_resolved(c, stmt, resolve(c.scopes, stmt.operand.name))

\* Stmt::Expr: the value is popped unless it is the program's result
pop_unless_result(c, expr, is_last) ==
    IF ~is_last \/ ~is_expression(expr) THEN emit(c, Op_PopTop) ELSE c

compile_statement_with_context(c, stmt, is_last) ==
    CASE stmt.k = "Var" -> compile_var_stmt(c, stmt)
      [] stmt.k = "MultiVar" -> compile_multi_var_stmt(c, stmt)
      [] stmt.k = "ObjectDestructure" -> compile_object_destructure_stmt(c, stmt)
      [] stmt.k = "Const" -> compile_const_stmt(c, stmt)
      [] stmt.k = "Return" -> compile_return_stmt(c, stmt)
      [] stmt.k = "Assign" -> compile_assign_stmt(c, stmt)
      [] stmt.k = "AssignIndex" -> compile_index_assign_stmt(c, stmt)
      [] stmt.k = "Throw" -> compile_throw_stmt(c, stmt)
      [] stmt.k = "Postfix" -> compile_postfix_stmt(c, stmt)
      [] stmt.k = "Expr" ->
            pop_unless_result(compile_expr(c, stmt.expr), stmt.expr, is_last)

\* Pass 2 of Compiler::compile: it returns at the first statement that
\* reported an error.
RECURSIVE compile_program(_, _, _)
ProgramFrom(c, stmts, i) == IF c.error # "" THEN c ELSE compile_program(c, stmts, i)

compile_program(c, stmts, i) ==
    IF i > Len(stmts) THEN c
    ELSE ProgramFrom(compile_statement_with_context(c, stmts[i], i = Len(stmts)),
                     stmts, i + 1)

\* The end of Compiler::compile: Err(error), or Halt and Ok(main code) with
\* the function units.
compile_result(c) ==
    IF c.error # ""
    THEN [ok |-> FALSE, error |-> c.error, main |-> to_code(CodeBuilder_new, 0, 0, << >>),
          funcs |-> << >>]
    ELSE [ok |-> TRUE, error |-> "",
          main |-> to_code(emit(c, Op_Halt).main, 0, local_count(c.scopes[Len(c.scopes)]),
                           [i \in 1..Len(c.scopes[Len(c.scopes)].symbols) |->
                                c.scopes[Len(c.scopes)].symbols[i].name]),
          funcs |-> c.funcs]

\* Compiler::compile
compile(global_names, program) ==
    compile_result(compile_program(Compiler_new(global_names), program, 1))

\* ------------------------------------------------------------------------
\* Runtime values (risor-vm/object.rs)
\* ------------------------------------------------------------------------

\* Object: t is the variant; n the Int value (numerator of a Float, id of a
\* List or Cell, code unit of a Closure, receiver list of a bound method);
\* d the denominator of a Float; s the text of a String or Error and the
\* name of a Builtin; fv the cells of a Closure.
Obj(t, n, d, s, fv) == [t |-> t, n |-> n, d |-> d, s |-> s, fv |-> fv]

Object_Nil == Obj("nil", 0, 1, "", << >>)
Object_Bool(b) == Obj("bool", IF b THEN 1 ELSE 0, 1, "", << >>)
Object_Int(n) == Obj("int", n, 1, "", << >>)
Object_Float(n, d) == Obj("float", n, d, "", << >>)
Object_String(s) == Obj("string", 0, 1, s, << >>)
Object_Error(s) == Obj("error", 0, 1, s, << >>)
Object_List(id) == Obj("list", id, 1, "", << >>)
Object_Map(id) == Obj("map", id, 1, "", << >>)
Object_Cell(id) == Obj("cell", id, 1, "", << >>)
Object_Closure(unit, free_vars) == Obj("closure", unit, 1, "", free_vars)
Object_Builtin(name, items) == Obj("builtin", items, 1, name, << >>)

\* Option<Object>::None
NoObject == Obj("none", 0, 1, "", << >>)

\* Object::type_name
type_name(o) == o.t

Abs(n) == IF n < 0 THEN -n ELSE n

RECURSIVE Gcd(_, _)
Gcd(a, b) == IF b = 0 THEN a ELSE Gcd(b, a % b)

\* The f64 quotient l / r of two numbers, kept as a reduced fraction.
FloatDiv(ln, ld, rn, rd) ==
    LET num == ln * rd * (IF rn < 0 THEN -1 ELSE 1)
        den == ld * Abs(rn)
        g == Gcd(Abs(num), den)
    IN IF num = 0 THEN Object_Float(0, 1) ELSE Object_Float(num \div g, den \div g)

\* impl fmt::Display for Object; heap holds the shared lists and cells.
RECURSIVE Display(_, _)
RECURSIVE DisplayItems(_, _, _)
DisplayItems(items, i, heap) ==
    IF i > Len(items) THEN ""
    ELSE Display(items[i], heap)
         \o (IF i < Len(items) THEN ", " ELSE "")
         \o DisplayItems(items, i + 1, heap)

Display(o, heap) ==
    CASE o.t = "nil" -> "nil"
      [] o.t = "bool" -> IF o.n = 1 THEN "true" ELSE "false"
      [] o.t = "int" -> ToString(o.n)
      [] o.t = "float" -> IF o.d = 1 THEN ToString(o.n)
                          ELSE ToString(o.n) \o "/" \o ToString(o.d)
      [] o.t = "string" -> o.s
      [] o.t = "list" -> "[" \o DisplayItems(heap.lists[o.n], 1, heap) \o "]"
      [] o.t = "closure" -> "<closure: anonymous>"
      [] o.t = "builtin" -> "<builtin: " \o o.s \o ">"
      [] o.t = "cell" -> "<cell: " \o Display(heap.cells[o.n], heap) \o ">"
      [] o.t = "error" -> "error: " \o o.s

\* Object::hash_key
hash_key(o) ==
    CASE o.t = "nil" -> Some("nil")
      [] o.t = "bool" -> Some(IF o.n = 1 THEN "true" ELSE "false")
      [] o.t = "int" -> Some("int:" \o ToString(o.n))
      [] o.t = "float" -> Some("float:" \o ToString(o.n) \o "/" \o ToString(o.d))
      [] o.t = "string" -> Some("str:" \o o.s)
      [] OTHER -> None

\* ------------------------------------------------------------------------
\* RisorMap (risor-vm/object.rs): two std HashMaps keyed by the hash key, one
\* of values and one of keys. A HashMap is a function; the order in which it
\* is iterated is not determined by what was inserted.
\* ------------------------------------------------------------------------
HashMap_new == [h \in {} |-> Object_Nil]

HashMap_insert(f, k, v) == [h \in (DOMAIN f) \cup {k} |-> IF h = k THEN v ELSE f[h]]

HashMap_remove(f, k) == [h \in (DOMAIN f) \ {k} |-> f[h]]

\* The orders in which an iteration can visit the entries
HashMap_iter(f) ==
    {o \in [1..Cardinality(DOMAIN f) -> DOMAIN f] :
        \A i, j \in 1..Cardinality(DOMAIN f) : o[i] = o[j] => i = j}

RisorMap_new == [data |-> HashMap_new, keys |-> HashMap_new]

RisorMap_get(m, key) ==
    IF hash_key(key).some /\ hash_key(key).v \in DOMAIN m.data
    THEN Some(m.data[hash_key(key).v])
    ELSE None

RisorMap_set(m, key, value) ==
    IF hash_key(key).some
    THEN [data |-> HashMap_insert(m.data, hash_key(key).v, value),
          keys |-> HashMap_insert(m.keys, hash_key(key).v, key)]
    ELSE m

RisorMap_has(m, key) == hash_key(key).some /\ hash_key(key).v \in DOMAIN m.data

\* A delete that forgets the key and keeps the value.
RisorMap_delete_key_only(m, key) ==
    IF hash_key(key).some
    THEN [data |-> m.data, keys |-> HashMap_remove(m.keys, hash_key(key).v)]
    ELSE m

\* the map after the deletion; delete returns RisorMap_has of the map before
RisorMap_delete(m, key) ==
    IF hash_key(key).some
    THEN [data |-> HashMap_remove(m.data, hash_key(key).v),
          keys |-> HashMap_remove(m.keys, hash_key(key).v)]
    ELSE m

RisorMap_len(m) == Cardinality(DOMAIN m.data)

\* keys, values and entries: the sequences the call can return
RisorMap_keys(m) ==
    {[i \in 1..Len(o) |-> m.keys[o[i]]] : o \in HashMap_iter(m.keys)}

RisorMap_values(m) ==
    {[i \in 1..Len(o) |-> m.data[o[i]]] : o \in HashMap_iter(m.data)}

RisorMap_entries(m) ==
    {[i \in 1..Len(o) |-> << m.keys[o[i]], m.data[o[i]] >>] : o \in HashMap_iter(m.keys)}

\* RisorMap::merge, for the sequence of pairs that other.entries() returned
RECURSIVE RisorMap_merge(_, _)
RisorMap_merge(m, entries) ==
    IF entries = << >> THEN m
    ELSE RisorMap_merge(RisorMap_set(m, Head(entries)[1], Head(entries)[2]),
                        Tail(entries))

\* Object::is_truthy
is_truthy(o, heap) ==
    CASE o.t = "nil" -> FALSE
      [] o.t = "bool" -> o.n = 1
      [] o.t = "int" -> o.n # 0
      [] o.t = "float" -> o.n # 0
      [] o.t = "string" -> o.s # ""
      [] o.t = "list" -> heap.lists[o.n] # << >>
      [] o.t = "map" -> RisorMap_len(heap.lists[o.n]) # 0
      [] OTHER -> TRUE

\* Object::equals
RECURSIVE equals(_, _, _)
equals(a, b, heap) ==
    CASE a.t = "nil" /\ b.t = "nil" -> TRUE
      [] a.t = "bool" /\ b.t = "bool" -> a.n = b.n
      [] a.t \in {"int", "float"} /\ b.t \in {"int", "float"} -> a.n * b.d = b.n * a.d
      [] a.t = "string" /\ b.t = "string" -> a.s = b.s
      [] a.t = "list" /\ b.t = "list" ->
           /\ Len(heap.lists[a.n]) = Len(heap.lists[b.n])
           /\ \A i \in 1..Len(heap.lists[a.n]) :
                 equals(heap.lists[a.n][i], heap.lists[b.n][i], heap)
      [] a.t = "map" /\ b.t = "map" ->
           /\ RisorMap_len(heap.lists[a.n]) = RisorMap_len(heap.lists[b.n])
           /\ \A h \in DOMAIN heap.lists[a.n].data :
                 /\ h \in DOMAIN heap.lists[b.n].data
                 /\ equals(heap.lists[a.n].data[h], heap.lists[b.n].data[h], heap)
      [] a.t = "error" /\ b.t = "error" -> a.s = b.s
      [] OTHER -> FALSE

\* Object::compare: an ordering of Int and Float operands as -1, 0 or 1,
\* None for operands that have no order
compare(a, b) ==
    IF a.t \in {"int", "float"} /\ b.t \in {"int", "float"}
    THEN Some(IF a.n * b.d < b.n * a.d THEN -1
              ELSE IF a.n * b.d = b.n * a.d THEN 0 ELSE 1)
    ELSE None

\* ------------------------------------------------------------------------
\* Frames and handlers (risor-vm/frame.rs)
\* ------------------------------------------------------------------------
MAX_STACK_DEPTH == 1024
MAX_FRAME_DEPTH == 256

NilVec(n) == [i \in 1..n |-> Object_Nil]

Frame_new(unit, bp, locals, free_vars) ==
    [ip |-> 0, bp |-> bp, code |-> unit, locals |-> locals, free_vars |-> free_vars]

\* RisorIter::new
RisorIter_new(items) == [items |-> items, index |-> 0]

\* A next that hands out the item without moving on.
RisorIter_next_stay(it) ==
    IF it.index >= Len(it.items) THEN [item |-> None, iter |-> it]
    ELSE [item |-> Some(it.items[it.index + 1]), iter |-> it]

\* RisorIter::next: the item, if one is left, and the iterator after the call
RisorIter_next(it) ==
    IF it.index >= Len(it.items) THEN [item |-> None, iter |-> it]
    ELSE [item |-> Some(it.items[it.index + 1]),
          iter |-> [it EXCEPT !.index = @ + 1]]

\* RisorIter::remaining
RisorIter_remaining(it) == Len(it.items) - it.index

\* Frame::from_closure: arguments beyond the locals array are dropped.
Frame_from_closure(unit, lc, free_vars, bp, args) ==
    Frame_new(unit, bp,
              [i \in 1..lc |-> IF i <= Len(args) THEN args[i] ELSE Object_Nil],
              free_vars)

ExceptionHandler(start, catch_offset, finally_offset, stack_depth, frame_depth) ==
    [start |-> start, end |-> 0, catch_offset |-> catch_offset,
     finally_offset |-> finally_offset, stack_depth |-> stack_depth,
     frame_depth |-> frame_depth]

\* ------------------------------------------------------------------------
\* The virtual machine (risor-vm/vm.rs)
\* ------------------------------------------------------------------------

\* program, code: the program given to the pipeline and its compiled form.
\* status, result: what run has returned, if it has.
\* stack .. pending_exception: the fields of VM; stack holds the slots
\* written so far, the slots above them are Nil.
\* lists, cells: the Rc<RefCell<..>> allocations behind List and Cell values.
\* native: the list methods currently iterating, innermost last.
\* sm, last: the compiler's scope manager and its latest operation.
\* builder: a CodeBuilder driven through add_constant.
\* iter, calls: a RisorIter and the number of next() calls made on it.
\* risor_map, inserted: a RisorMap and the order in which its live keys were
\* first inserted.
VARIABLES program, code, status, result, stack, sp, frames, globals, global_names,
          exception_handlers, pending_exception, lists, cells, native, sm, last,
          risor_map, inserted,
                    builder, iter, calls

vars == << program, code, status, result, stack, sp, frames, globals, global_names,
           exception_handlers, pending_exception, lists, cells, native, sm, last, risor_map, inserted,
                    builder, iter, calls >>

vmvars == << program, code, status, result, stack, sp, frames, globals, global_names,
             exception_handlers, pending_exception, lists, cells, native >>

\* Code of a unit: 0 is the main program, k > 0 the k-th compiled function.
Code(unit) == IF unit = 0 THEN code.main ELSE code.funcs[unit]

\* VM::current_frame
current_frame == frames[Len(frames)]

CurCode == Code(current_frame.code)

\* Frame::is_at_end
is_at_end == current_frame.ip >= Len(CurCode.instructions)

\* The min_frame_depth of the innermost execute.
min_frame_depth == IF native = << >> THEN 0 ELSE native[Len(native)].min_depth

\* The opcode read_op would return, and the k-th slot after it.
CurOp == CurCode.instructions[current_frame.ip + 1]
Operand(k) == CurCode.instructions[current_frame.ip + 1 + k]

St == [stack |-> stack, sp |-> sp]

Pad(s, n) == IF Len(s) >= n THEN s ELSE s \o [i \in 1..(n - Len(s)) |-> Object_Nil]

\* VM::push (the overflow panic is decided by WouldPanic)
push(st, v) ==
    LET s == Pad(st.stack, st.sp + 1)
    IN [stack |-> [s EXCEPT ![st.sp + 1] = v], sp |-> st.sp + 1]

\* VM::pop leaves Nil in the slot.
pop(st) == [stack |-> [st.stack EXCEPT ![st.sp] = Object_Nil], sp |-> st.sp - 1]

RECURSIVE popn(_, _)
popn(st, n) == IF n = 0 THEN st ELSE popn(pop(st), n - 1)

\* stack[sp - 1 - depth]
peek(st, depth) == st.stack[st.sp - depth]

\* The value execute hands back when it stops: popped or only read.
PopOrNil(st) == IF st.sp > 0 THEN peek(st, 0) ELSE Object_Nil

SetIp(fs, ip) == [fs EXCEPT ![Len(fs)].ip = ip]

Advance(k) == SetIp(frames, current_frame.ip + k)

\* A list is borrowed while one of its methods iterates over it.
Borrowed(id) == \E i \in 1..Len(native) : native[i].items = id

\* VM::handle_exception
RECURSIVE handle_exception(_, _, _, _, _)
handle_exception(handlers, fs, st, pending, error) ==
    IF handlers = << >>
    THEN [handled |-> FALSE, exception_handlers |-> handlers, frames |-> fs,
          st |-> st, pending_exception |-> pending]
    ELSE
    LET handler == handlers[Len(handlers)]
        rest == SubSeq(handlers, 1, Len(handlers) - 1)
        fs1 == IF Len(fs) > handler.frame_depth
               THEN SubSeq(fs, 1, handler.frame_depth) ELSE fs
        st1 == [stack |-> Pad(st.stack, handler.stack_depth), sp |-> handler.stack_depth]
    IN IF handler.catch_offset # USIZE_MAX
       THEN [handled |-> TRUE, exception_handlers |-> rest,
             frames |-> IF fs1 = << >> THEN fs1 ELSE SetIp(fs1, handler.catch_offset),
             st |-> push(st1, error), pending_exception |-> pending]
       ELSE IF handler.finally_offset # USIZE_MAX
       THEN [handled |-> TRUE, exception_handlers |-> rest,
             frames |-> IF fs1 = << >> THEN fs1 ELSE SetIp(fs1, handler.finally_offset),
             st |-> st1, pending_exception |-> error]
       ELSE handle_exception(rest, fs1, st1, pending, error)

\* VM::get_method / get_list_method, for the list methods the programs use.
ListMethods == {"len", "append", "pop", "map", "each"}

\* VM::get_map_method: the builtin captures the map
MapMethods == {"len", "keys", "values", "entries", "get", "set", "delete", "has", "each"}

Object_MapBuiltin(name, id) == Obj("builtin", id, 1, name, << Object_Map(id) >>)

get_method(obj, name) ==
    IF obj.t = "list" /\ name \in ListMethods
    THEN Object_Builtin(name, obj.n)
    ELSE IF obj.t = "map" /\ name \in MapMethods
    THEN Object_MapBuiltin(name, obj.n)
    ELSE NoObject

\* Arithmetic helpers
IsNumber(o) == o.t \in {"int", "float"}

Rem(a, b) == IF a >= 0 THEN a % Abs(b) ELSE -((-a) % Abs(b))

Reduce(n, d) ==
    LET g == Gcd(Abs(n), d)
    IN IF n = 0 THEN Object_Float(0, 1) ELSE Object_Float(n \div g, d \div g)

\* Result of add/subtract/divide/modulo: [ok, value, heap] or [ok = FALSE, msg].
Ok(v, heap) == [ok |-> TRUE, value |-> v, msg |-> "", lists |-> heap]
Err(msg, heap) == [ok |-> FALSE, value |-> Object_Nil, msg |-> msg, lists |-> heap]

add(l, r, heap) ==
    CASE l.t = "int" /\ r.t = "int" -> Ok(Object_Int(l.n + r.n), heap)
      [] IsNumber(l) /\ IsNumber(r) /\ ~(l.t = "int" /\ r.t = "int") ->
            Ok(Reduce(l.n * r.d + r.n * l.d, l.d * r.d), heap)
      [] l.t = "string" /\ r.t = "string" -> Ok(Object_String(l.s \o r.s), heap)
      [] l.t = "list" /\ r.t = "list" ->
            Ok(Object_List(Len(heap) + 1), Append(heap, heap[l.n] \o heap[r.n]))
      [] OTHER -> Err("cannot add " \o type_name(l) \o " and " \o type_name(r), heap)

subtract(l, r, heap) ==
    CASE l.t = "int" /\ r.t = "int" -> Ok(Object_Int(l.n - r.n), heap)
      [] IsNumber(l) /\ IsNumber(r) /\ ~(l.t = "int" /\ r.t = "int") ->
            Ok(Reduce(l.n * r.d - r.n * l.d, l.d * r.d), heap)
      [] OTHER -> Err("cannot subtract " \o type_name(r) \o " from " \o type_name(l), heap)

divide(l, r, heap) ==
    IF ~IsNumber(r) THEN Err("division requires numbers", heap)
    ELSE IF r.n = 0 THEN Err("division by zero", heap)
    ELSE IF ~IsNumber(l) THEN Err("division requires numbers", heap)
    ELSE Ok(FloatDiv(l.n, l.d, r.n, r.d), heap)

modulo(l, r, heap) ==
    IF l.t = "int" /\ r.t = "int"
    THEN IF r.n = 0 THEN Err("modulo by zero", heap)
         ELSE Ok(Object_Int(Rem(l.n, r.n)), heap)
    ELSE Err("cannot modulo " \o type_name(l) \o " and " \o type_name(r), heap)

binary_op(op_type, l, r, heap) ==
    CASE op_type = BinaryOpType_Add -> add(l, r, heap)
      [] op_type = BinaryOpType_Subtract -> subtract(l, r, heap)
      [] op_type = BinaryOpType_Divide -> divide(l, r, heap)
      [] op_type = BinaryOpType_Modulo -> modulo(l, r, heap)

\* VM::op_load_const's conversion of a constant
ConstantObject(c) ==
    CASE c.t = "Int" -> Object_Int(c.n)
      [] c.t = "String" -> Object_String(c.s)
      [] c.t = "Function" -> Object_Closure(c.n, << >>)

\* ------------------------------------------------------------------------
\* Programs run through the pipeline (risor/lib.rs eval)
\* ------------------------------------------------------------------------

\* let log = []
\* try { throw "boom" } catch e { log.append(e) } finally { log.append("f") }
\* log
Prog_TryCatchFinally ==
    << VarStmt("log", ListLit(<< >>)),
       ExprStmt(TryExpr(<< ThrowStmt(StringLit("boom")) >>, Some("e"),
           Some(<< ExprStmt(ObjectCallExpr(Ident("log"), "append", << Ident("e") >>)) >>),
           Some(<< ExprStmt(ObjectCallExpr(Ident("log"), "append", << StringLit("f") >>)) >>))),
       ExprStmt(Ident("log")) >>

\* test_closures: makeCounter, three calls of the counter
Prog_Counter ==
    << VarStmt("makeCounter", FuncLit(<< >>,
           << VarStmt("n", IntLit(0)),
              ReturnStmt(Some(FuncLit(<< >>,
                  << AssignStmt("n", "=", InfixExpr(Ident("n"), "+", IntLit(1))),
                     ReturnStmt(Some(Ident("n"))) >>))) >>)),
       VarStmt("c", CallExpr(Ident("makeCounter"), << >>)),
       ExprStmt(CallExpr(Ident("c"), << >>)),
       ExprStmt(CallExpr(Ident("c"), << >>)),
       ExprStmt(CallExpr(Ident("c"), << >>)) >>

\* try body in which the expression statement e raises
TryCatching(body) ==
    << ExprStmt(TryExpr(body, Some("e"), Some(<< ExprStmt(IntLit(1)) >>), None)) >>

\* try { 1 / 0 } catch e { 1 }
Prog_DivideByZero ==
    TryCatching(<< ExprStmt(InfixExpr(IntLit(1), "/", IntLit(0))) >>)

\* try { 1 % 0 } catch e { 1 }
Prog_ModuloByZero ==
    TryCatching(<< ExprStmt(InfixExpr(IntLit(1), "%", IntLit(0))) >>)

\* try { [].nope } catch e { 1 }
Prog_UndefinedAttr ==
    TryCatching(<< ExprStmt(GetAttrExpr(ListLit(<< >>), "nope")) >>)

\* try { 1 + "a" } catch e { 1 }
Prog_AddIntString ==
    TryCatching(<< ExprStmt(InfixExpr(IntLit(1), "+", StringLit("a"))) >>)

\* try { let a, b = 1 } catch e { 1 }
Prog_UnpackInt ==
    TryCatching(<< MultiVarStmt(<< "a", "b" >>, IntLit(1)) >>)

\* try { 1() } catch e { 1 }
Prog_CallInt ==
    TryCatching(<< ExprStmt(CallExpr(IntLit(1), << >>)) >>)

\* try { [].pop() } catch e { 1 }
Prog_PopEmpty ==
    TryCatching(<< ExprStmt(ObjectCallExpr(ListLit(<< >>), "pop", << >>)) >>)

\* let f = nil
\* f = function() { f() }
\* try { f() } catch e { 1 }
Prog_Recursion ==
    << VarStmt("f", NilLit),
       AssignStmt("f", "=", FuncLit(<< >>, << ExprStmt(CallExpr(Ident("f"), << >>)) >>)) >>
    \o TryCatching(<< ExprStmt(CallExpr(Ident("f"), << >>)) >>)

\* let log = []
\* try { log.append("t") } finally { log.append("f") }
\* log
Prog_TryFinallyNormal ==
    << VarStmt("log", ListLit(<< >>)),
       ExprStmt(TryExpr(
           << ExprStmt(ObjectCallExpr(Ident("log"), "append", << StringLit("t") >>)) >>,
           None, None,
           Some(<< ExprStmt(ObjectCallExpr(Ident("log"), "append", << StringLit("f") >>)) >>))),
       ExprStmt(Ident("log")) >>

\* let log = []
\* try { throw "a" } catch e { throw "b" } finally { log.append("f") }
\* log
Prog_CatchThrows ==
    << VarStmt("log", ListLit(<< >>)),
       ExprStmt(TryExpr(<< ThrowStmt(StringLit("a")) >>, Some("e"),
           Some(<< ThrowStmt(StringLit("b")) >>),
           Some(<< ExprStmt(ObjectCallExpr(Ident("log"), "append", << StringLit("f") >>)) >>))),
       ExprStmt(Ident("log")) >>

\* let log = []
\* try { throw "a" } finally { log.append("f") }
\* log
Prog_TryFinallyThrow ==
    << VarStmt("log", ListLit(<< >>)),
       ExprStmt(TryExpr(<< ThrowStmt(StringLit("a")) >>, None, None,
           Some(<< ExprStmt(ObjectCallExpr(Ident("log"), "append", << StringLit("f") >>)) >>))),
       ExprStmt(Ident("log")) >>

\* let F = function() {
\*     let v = 1
\*     let G = function() { v = 2 }
\*     let H = function() { return v }
\*     G()
\*     return [H(), v]
\* }
\* F()
Prog_SharedWrite ==
    << VarStmt("F", FuncLit(<< >>,
           << VarStmt("v", IntLit(1)),
              VarStmt("G", FuncLit(<< >>, << AssignStmt("v", "=", IntLit(2)) >>)),
              VarStmt("H", FuncLit(<< >>, << ReturnStmt(Some(Ident("v"))) >>)),
              ExprStmt(CallExpr(Ident("G"), << >>)),
              ReturnStmt(Some(ListLit(<< CallExpr(Ident("H"), << >>), Ident("v") >>))) >>)),
       ExprStmt(CallExpr(Ident("F"), << >>)) >>

\* let F = function() {
\*     let v = 1
\*     let G = function() { return v }
\*     v = 5
\*     return G()
\* }
\* F()
Prog_SharedRead ==
    << VarStmt("F", FuncLit(<< >>,
           << VarStmt("v", IntLit(1)),
              VarStmt("G", FuncLit(<< >>, << ReturnStmt(Some(Ident("v"))) >>)),
              AssignStmt("v", "=", IntLit(5)),
              ReturnStmt(Some(CallExpr(Ident("G"), << >>))) >>)),
       ExprStmt(CallExpr(Ident("F"), << >>)) >>

\* let g = function() { throw "deep" }
\* try { [1, g()] } catch e { e }
Prog_DeepThrow ==
    << VarStmt("g", FuncLit(<< >>, << ThrowStmt(StringLit("deep")) >>)),
       ExprStmt(TryExpr(
           << ExprStmt(ListLit(<< IntLit(1), CallExpr(Ident("g"), << >>) >>)) >>,
           Some("e"), Some(<< ExprStmt(Ident("e")) >>), None)) >>

\* let f = function() { try { return 1 } catch e { 2 } }
\* f()
\* throw "x"
Prog_StaleHandler ==
    << VarStmt("f", FuncLit(<< >>,
           << ExprStmt(TryExpr(<< ReturnStmt(Some(IntLit(1))) >>, Some("e"),
                               Some(<< ExprStmt(IntLit(2)) >>), None)) >>)),
       ExprStmt(CallExpr(Ident("f"), << >>)),
       ThrowStmt(StringLit("x")) >>

\* Number of times Prog_CallbackRecursion doubles its list: the recursion
\* goes 2^Doublings callbacks deep.
Doublings == 8

\* let l = [0]
\* l = l + l            (Doublings times)
\* let f = nil
\* f = function(x) { l.pop(); [1].each(f) }
\* f(0)
Prog_CallbackRecursion ==
    << VarStmt("l", ListLit(<< IntLit(0) >>)) >>
    \o [i \in 1..Doublings |->
           AssignStmt("l", "=", InfixExpr(Ident("l"), "+", Ident("l")))]
    \o << VarStmt("f", NilLit),
          AssignStmt("f", "=", FuncLit(<< "x" >>,
              << ExprStmt(ObjectCallExpr(Ident("l"), "pop", << >>)),
                 ExprStmt(ObjectCallExpr(ListLit(<< IntLit(1) >>), "each",
                                         << Ident("f") >>)) >>)),
          ExprStmt(CallExpr(Ident("f"), << IntLit(0) >>)) >>

\* [1, 2].each(x => x)
\* let y = 1
Prog_EachThenLet ==
    << ExprStmt(ObjectCallExpr(ListLit(<< IntLit(1), IntLit(2) >>), "each",
           << FuncLit(<< "x" >>, << ReturnStmt(Some(Ident("x"))) >>) >>)),
       VarStmt("y", IntLit(1)) >>

\* test_map_method: [1, 2].map(x => x + 1)
Prog_Map ==
    << ExprStmt(ObjectCallExpr(ListLit(<< IntLit(1), IntLit(2) >>), "map",
           << FuncLit(<< "x" >>,
                  << ReturnStmt(Some(InfixExpr(Ident("x"), "+", IntLit(1)))) >>) >>)) >>

\* let l = [7]
\* let y = l[0]
Prog_LetOnly ==
    << VarStmt("l", ListLit(<< IntLit(7) >>)),
       VarStmt("y", IndexExpr(Ident("l"), IntLit(0))) >>

\* The empty program
Prog_Empty == << >>

\* let x = x
Prog_Undefined == << VarStmt("x", Ident("x")) >>

\* let log = []
\* try { throw "a" } finally { nil; log.append("f") }
\* log
Prog_FinallyRethrow ==
    << VarStmt("log", ListLit(<< >>)),
       ExprStmt(TryExpr(<< ThrowStmt(StringLit("a")) >>, None, None,
           Some(<< ExprStmt(NilLit),
                   ExprStmt(ObjectCallExpr(Ident("log"), "append", << StringLit("f") >>)) >>))),
       ExprStmt(Ident("log")) >>

\* makeCounter as in test_closures, the three calls collected in a list:
\* [c(), c(), c()]
Prog_CounterList ==
    SubSeq(Prog_Counter, 1, 2)
    \o << ExprStmt(ListLit(<< CallExpr(Ident("c"), << >>), CallExpr(Ident("c"), << >>),
                              CallExpr(Ident("c"), << >>) >>)) >>

\* test_constant_assignment_error: const x = 1
\*                                 x = 2
Prog_ConstSame ==
    << ConstStmt("x", IntLit(1)), AssignStmt("x", "=", IntLit(2)) >>

\* const x = 1
\* let f = function() { x += 2 }
Prog_ConstGlobal ==
    << ConstStmt("x", IntLit(1)),
       VarStmt("f", FuncLit(<< >>, << AssignStmt("x", "+=", IntLit(2)) >>)) >>

\* let F = function() {
\*     const x = 1
\*     let g = function() { x = 2 }
\* }
Prog_ConstFree ==
    << VarStmt("F", FuncLit(<< >>,
           << ConstStmt("x", IntLit(1)),
              VarStmt("g", FuncLit(<< >>, << AssignStmt("x", "=", IntLit(2)) >>)) >>)) >>

\* let F = function() {
\*     const x = 1
\*     let g = function() { let h = function() { x -= 2 } }
\* }
Prog_ConstFreeDeep ==
    << VarStmt("F", FuncLit(<< >>,
           << ConstStmt("x", IntLit(1)),
              VarStmt("g", FuncLit(<< >>,
                  << VarStmt("h", FuncLit(<< >>,
                         << AssignStmt("x", "-=", IntLit(2)) >>)) >>)) >>)) >>

\* const x = 1
\* let y = 2
\* y = x + y
\* y
Prog_ConstRead ==
    << ConstStmt("x", IntLit(1)),
       VarStmt("y", IntLit(2)),
       AssignStmt("y", "=", InfixExpr(Ident("x"), "+", Ident("y"))),
       ExprStmt(Ident("y")) >>

\* try { [1].each(x => x) } catch e { 1 }
Prog_TryEach ==
    TryCatching(<< ExprStmt(ObjectCallExpr(ListLit(<< IntLit(1) >>), "each",
                      << FuncLit(<< "x" >>, << ReturnStmt(Some(Ident("x"))) >>) >>)) >>)

\* let log = []
\* try { try { throw "a" } finally { nil; log.append("f") } } catch e { log.append("c") }
\* log
Prog_NestedFinally ==
    << VarStmt("log", ListLit(<< >>)),
       ExprStmt(TryExpr(
           << ExprStmt(TryExpr(<< ThrowStmt(StringLit("a")) >>, None, None,
                  Some(<< ExprStmt(NilLit),
                          ExprStmt(ObjectCallExpr(Ident("log"), "append",
                                                  << StringLit("f") >>)) >>))) >>,
           Some("e"),
           Some(<< ExprStmt(ObjectCallExpr(Ident("log"), "append", << StringLit("c") >>)) >>),
           None)),
       ExprStmt(Ident("log")) >>

\* throw [1, 2]
Prog_ThrowList == << ThrowStmt(ListLit(<< IntLit(1), IntLit(2) >>)) >>

\* throw 42
Prog_ThrowInt == << ThrowStmt(IntLit(42)) >>

\* match 2 { 1 => "one", 2 => "two", 2 => "again", _ => "other" }
Prog_MatchSecond ==
    << ExprStmt(MatchExpr(IntLit(2),
          << MatchArm(Pattern_Literal(IntLit(1)), None, StringLit("one")),
             MatchArm(Pattern_Literal(IntLit(2)), None, StringLit("two")),
             MatchArm(Pattern_Literal(IntLit(2)), None, StringLit("again")) >>,
          Some(MatchArm(Pattern_Wildcard, None, StringLit("other"))))) >>

\* let x = 2
\* match x { 2 if false => "a", 2 if x == 2 => "b", 2 => "c", _ => "d" }
Prog_MatchGuard ==
    << VarStmt("x", IntLit(2)),
       ExprStmt(MatchExpr(Ident("x"),
          << MatchArm(Pattern_Literal(IntLit(2)), Some(BoolLit(FALSE)), StringLit("a")),
             MatchArm(Pattern_Literal(IntLit(2)),
                      Some(InfixExpr(Ident("x"), "==", IntLit(2))), StringLit("b")),
             MatchArm(Pattern_Literal(IntLit(2)), None, StringLit("c")) >>,
          Some(MatchArm(Pattern_Wildcard, None, StringLit("d"))))) >>

\* let log = []
\* [10, match 5 { 1 => log.append("one"), "5" => log.append("s"), _ => 7 }, 30]
Prog_MatchDefault ==
    << VarStmt("log", ListLit(<< >>)),
       VarStmt("r", ListLit(<<
          IntLit(10),
          MatchExpr(IntLit(5),
             << MatchArm(Pattern_Literal(IntLit(1)), None,
                         ObjectCallExpr(Ident("log"), "append", << StringLit("one") >>)),
                MatchArm(Pattern_Literal(StringLit("5")), None,
                         ObjectCallExpr(Ident("log"), "append", << StringLit("s") >>)) >>,
             Some(MatchArm(Pattern_Wildcard, None, IntLit(7)))),
          IntLit(30) >>)),
       ExprStmt(Ident("r")) >>

\* let log = []
\* let r = [10, match 5 { 1 => log.append("one"), 5 if false => log.append("g") }, 30]
\* r
Prog_MatchNone ==
    << VarStmt("log", ListLit(<< >>)),
       VarStmt("r", ListLit(<<
          IntLit(10),
          MatchExpr(IntLit(5),
             << MatchArm(Pattern_Literal(IntLit(1)), None,
                         ObjectCallExpr(Ident("log"), "append", << StringLit("one") >>)),
                MatchArm(Pattern_Literal(IntLit(5)), Some(BoolLit(FALSE)),
                         ObjectCallExpr(Ident("log"), "append", << StringLit("g") >>)) >>,
             None),
          IntLit(30) >>)),
       ExprStmt(Ident("r")) >>

\* let log = []
\* let r = [10, match 1 { 1 if true => log.append("one"), 1 => log.append("two"),
\*                        _ => log.append("d") }, 30]
\* r
Prog_MatchOnce ==
    << VarStmt("log", ListLit(<< >>)),
       VarStmt("r", ListLit(<<
          IntLit(10),
          MatchExpr(IntLit(1),
             << MatchArm(Pattern_Literal(IntLit(1)), Some(BoolLit(TRUE)),
                         ObjectCallExpr(Ident("log"), "append", << StringLit("one") >>)),
                MatchArm(Pattern_Literal(IntLit(1)), None,
                         ObjectCallExpr(Ident("log"), "append", << StringLit("two") >>)) >>,
             Some(MatchArm(Pattern_Wildcard, None,
                         ObjectCallExpr(Ident("log"), "append", << StringLit("d") >>)))),
          IntLit(30) >>)),
       ExprStmt(Ident("r")) >>

\* let { a, b = 10 } = { "a": 1 }
\* a + b
Prog_DestructureDefault ==
    << ObjectDestructureStmt(
           << DestructureBinding("a", None, None),
              DestructureBinding("b", None, Some(IntLit(10))) >>,
           MapLit(<< MapItem(Some(StringLit("a")), IntLit(1)) >>)),
       ExprStmt(InfixExpr(Ident("a"), "+", Ident("b"))) >>

\* let { a = 5, b = 10 } = { a: 1, b: 2 }
\* a + b
Prog_DestructurePresent ==
    << ObjectDestructureStmt(
           << DestructureBinding("a", None, Some(IntLit(5))),
              DestructureBinding("b", None, Some(IntLit(10))) >>,
           MapLit(<< MapItem(Some(Ident("a")), IntLit(1)),
                     MapItem(Some(Ident("b")), IntLit(2)) >>)),
       ExprStmt(InfixExpr(Ident("a"), "+", Ident("b"))) >>

\* func f(o) { let { a = 7 } = o; return a }
\* [1, f({})]
Prog_DestructureInCall ==
    << VarStmt("f", FuncLit(<< "o" >>,
           << ObjectDestructureStmt(<< DestructureBinding("a", None, Some(IntLit(7))) >>,
                                    Ident("o")),
              ReturnStmt(Some(Ident("a"))) >>)),
       ExprStmt(ListLit(<< IntLit(1), CallExpr(Ident("f"), << MapLit(<< >>) >>) >>)) >>

\* let log = []
\* let r = [5, 1 ?? log.append("x")]
\* r
Prog_NullishLeft ==
    << VarStmt("log", ListLit(<< >>)),
       VarStmt("r", ListLit(<< IntLit(5),
           InfixExpr(IntLit(1), "??",
                     ObjectCallExpr(Ident("log"), "append", << StringLit("x") >>)) >>)),
       ExprStmt(Ident("r")) >>

\* nil ?? 2
Prog_NullishNil == << ExprStmt(InfixExpr(NilLit, "??", IntLit(2))) >>

\* let f = func(x) { return x ?? 2 }
\* [5, f(nil)]
Prog_NullishInCall ==
    << VarStmt("f", FuncLit(<< "x" >>,
           << ReturnStmt(Some(InfixExpr(Ident("x"), "??", IntLit(2)))) >>)),
       ExprStmt(ListLit(<< IntLit(5), CallExpr(Ident("f"), << NilLit >>) >>)) >>

\* let a, b = [1, 2, 3]
\* [a, b]
Prog_UnpackPair ==
    << MultiVarStmt(<< "a", "b" >>, ListLit(<< IntLit(1), IntLit(2), IntLit(3) >>)),
       ExprStmt(ListLit(<< Ident("a"), Ident("b") >>)) >>

\* let p, q, r = [4, 5, 6]
\* [p, q, r]
Prog_UnpackTriple ==
    << MultiVarStmt(<< "p", "q", "r" >>, ListLit(<< IntLit(4), IntLit(5), IntLit(6) >>)),
       ExprStmt(ListLit(<< Ident("p"), Ident("q"), Ident("r") >>)) >>

\* let m = { [1]: 2 }
\* m.len()
Prog_KeyListLiteral ==
    << VarStmt("m", MapLit(<< MapItem(Some(ListLit(<< IntLit(1) >>)), IntLit(2)) >>)),
       ExprStmt(ObjectCallExpr(Ident("m"), "len", << >>)) >>

\* let m = { "a": 1 }
\* m[[1]] = 2
\* m.len()
Prog_KeyListStore ==
    << VarStmt("m", MapLit(<< MapItem(Some(StringLit("a")), IntLit(1)) >>)),
       IndexAssignStmt(Ident("m"), ListLit(<< IntLit(1) >>), "=", IntLit(2)),
       ExprStmt(ObjectCallExpr(Ident("m"), "len", << >>)) >>

\* let m = { "a": 1 }
\* m.set(m, 2)
\* m.len()
Prog_KeyMapSet ==
    << VarStmt("m", MapLit(<< MapItem(Some(StringLit("a")), IntLit(1)) >>)),
       ExprStmt(ObjectCallExpr(Ident("m"), "set", << Ident("m"), IntLit(2) >>)),
       ExprStmt(ObjectCallExpr(Ident("m"), "len", << >>)) >>

\* let m = { "a": 1 }
\* m["b"] = 2
\* let l = [1, 2]
\* l[-1] = 9
\* l[0] += 4
\* [m.get("a"), m.get("b"), l[0], l[1]]
Prog_StoreIndex ==
    << VarStmt("m", MapLit(<< MapItem(Some(StringLit("a")), IntLit(1)) >>)),
       IndexAssignStmt(Ident("m"), StringLit("b"), "=", IntLit(2)),
       VarStmt("l", ListLit(<< IntLit(1), IntLit(2) >>)),
       IndexAssignStmt(Ident("l"), IntLit(-1), "=", IntLit(9)),
       IndexAssignStmt(Ident("l"), IntLit(0), "+=", IntLit(4)),
       ExprStmt(ListLit(<< ObjectCallExpr(Ident("m"), "get", << StringLit("a") >>),
                           ObjectCallExpr(Ident("m"), "get", << StringLit("b") >>),
                           IndexExpr(Ident("l"), IntLit(0)),
                           IndexExpr(Ident("l"), IntLit(1)) >>)) >>

\* let m = { "x": 7 }
\* m.x
Prog_AttrKey ==
    << VarStmt("m", MapLit(<< MapItem(Some(StringLit("x")), IntLit(7)) >>)),
       ExprStmt(GetAttrExpr(Ident("m"), "x")) >>

\* let m = { "len": 5 }
\* m.len
Prog_AttrMethodKey ==
    << VarStmt("m", MapLit(<< MapItem(Some(StringLit("len")), IntLit(5)) >>)),
       ExprStmt(GetAttrExpr(Ident("m"), "len")) >>

\* let m = { "x": 7 }
\* m.has
Prog_AttrMethod ==
    << VarStmt("m", MapLit(<< MapItem(Some(StringLit("x")), IntLit(7)) >>)),
       ExprStmt(GetAttrExpr(Ident("m"), "has")) >>


\* let f = func(a) { let x = 5; return a }
\* f(1, 2)
Prog_ArgsExtra ==
    << VarStmt("f", FuncLit(<< "a" >>,
           << VarStmt("x", IntLit(5)), ReturnStmt(Some(Ident("a"))) >>)),
       ExprStmt(CallExpr(Ident("f"), << IntLit(1), IntLit(2) >>)) >>

\* let f = func(a, b) { let x = 5; return b }
\* f(1)
Prog_ArgsMissing ==
    << VarStmt("f", FuncLit(<< "a", "b" >>,
           << VarStmt("x", IntLit(5)), ReturnStmt(Some(Ident("b"))) >>)),
       ExprStmt(CallExpr(Ident("f"), << IntLit(1) >>)) >>

\* let f = func(a, b) { let x = 5; return b }
\* f(1, 2)
Prog_ArgsExact ==
    << VarStmt("f", FuncLit(<< "a", "b" >>,
           << VarStmt("x", IntLit(5)), ReturnStmt(Some(Ident("b"))) >>)),
       ExprStmt(CallExpr(Ident("f"), << IntLit(1), IntLit(2) >>)) >>


\* [1, 2, 3][-5:10]
Prog_SliceClamped ==
    << ExprStmt(SliceExpr(ListLit(<< IntLit(1), IntLit(2), IntLit(3) >>),
                          Some(IntLit(-5)), Some(IntLit(10)))) >>

\* [1, 2, 3][-2:]
Prog_SliceTail ==
    << ExprStmt(SliceExpr(ListLit(<< IntLit(1), IntLit(2), IntLit(3) >>),
                          Some(IntLit(-2)), None)) >>

\* [1, 2, 3][5:7]
Prog_SliceBeyond ==
    << ExprStmt(SliceExpr(ListLit(<< IntLit(1), IntLit(2), IntLit(3) >>),
                          Some(IntLit(5)), Some(IntLit(7)))) >>

\* [1, 2, 3][2:1]
Prog_SliceReversed ==
    << ExprStmt(SliceExpr(ListLit(<< IntLit(1), IntLit(2), IntLit(3) >>),
                          Some(IntLit(2)), Some(IntLit(1)))) >>

\* "abc"[:-1]
Prog_SliceString ==
    << ExprStmt(SliceExpr(StringLit("abc"), None, Some(IntLit(-1)))) >>

\* "abc"[-1:1]
Prog_SliceStringReversed ==
    << ExprStmt(SliceExpr(StringLit("abc"), Some(IntLit(-1)), Some(IntLit(1)))) >>


\* let outer = func() { let a = 1; return func() { return func() { return a } } }
\* outer()()()
Prog_DeepFirst ==
    << VarStmt("outer", FuncLit(<< >>,
           << VarStmt("a", IntLit(1)),
              ReturnStmt(Some(FuncLit(<< >>,
                  << ReturnStmt(Some(FuncLit(<< >>,
                         << ReturnStmt(Some(Ident("a"))) >>))) >>))) >>)),
       ExprStmt(CallExpr(CallExpr(CallExpr(Ident("outer"), << >>), << >>), << >>)) >>

\* let outer = func() { let a = 1; let b = 2
\*                      return func() { return func() { return b } } }
\* outer()()()
Prog_DeepSecond ==
    << VarStmt("outer", FuncLit(<< >>,
           << VarStmt("a", IntLit(1)),
              VarStmt("b", IntLit(2)),
              ReturnStmt(Some(FuncLit(<< >>,
                  << ReturnStmt(Some(FuncLit(<< >>,
                         << ReturnStmt(Some(Ident("b"))) >>))) >>))) >>)),
       ExprStmt(CallExpr(CallExpr(CallExpr(Ident("outer"), << >>), << >>), << >>)) >>

\* let outer = func() { let a = 1; let b = 2
\*                      return func() { return func() { return [b, a] } } }
\* outer()()()
Prog_DeepBoth ==
    << VarStmt("outer", FuncLit(<< >>,
           << VarStmt("a", IntLit(1)),
              VarStmt("b", IntLit(2)),
              ReturnStmt(Some(FuncLit(<< >>,
                  << ReturnStmt(Some(FuncLit(<< >>,
                         << ReturnStmt(Some(ListLit(<< Ident("b"), Ident("a") >>))) >>))) >>))) >>)),
       ExprStmt(CallExpr(CallExpr(CallExpr(Ident("outer"), << >>), << >>), << >>)) >>


\* let f = func() { [1, try { return 2 } catch e { 3 }] }
\* [0, f()]
Prog_ReturnMidExpr ==
    << VarStmt("f", FuncLit(<< >>,
           << ExprStmt(ListLit(<< IntLit(1),
                  TryExpr(<< ReturnStmt(Some(IntLit(2))) >>, Some("e"),
                          Some(<< ExprStmt(IntLit(3)) >>), None) >>)) >>)),
       ExprStmt(ListLit(<< IntLit(0), CallExpr(Ident("f"), << >>) >>)) >>


\* let log = []
\* try { [1, 2].map(func(x) { log.append(x); throw "boom" }) } catch e { 9 }
\* log
Prog_TryMapThrow ==
    << VarStmt("log", ListLit(<< >>)),
       ExprStmt(TryExpr(
           << ExprStmt(ObjectCallExpr(ListLit(<< IntLit(1), IntLit(2) >>), "map",
                  << FuncLit(<< "x" >>,
                         << ExprStmt(ObjectCallExpr(Ident("log"), "append",
                                                    << Ident("x") >>)),
                            ThrowStmt(StringLit("boom")) >>) >>)) >>,
           Some("e"), Some(<< ExprStmt(IntLit(9)) >>), None)),
       ExprStmt(Ident("log")) >>


\* let a = 1
Prog_DeclareA == << VarStmt("a", IntLit(1)) >>

\* let b = 2
\* b
Prog_DeclareB == << VarStmt("b", IntLit(2)), ExprStmt(Ident("b")) >>


\* const x = 1
\* x++
\* x
Prog_ConstPostfix ==
    << ConstStmt("x", IntLit(1)),
       PostfixStmt(Ident("x"), "++"),
       ExprStmt(Ident("x")) >>

\* const x = 1
\* let x = 2
\* x
Prog_ConstRelet ==
    << ConstStmt("x", IntLit(1)),
       VarStmt("x", IntLit(2)),
       ExprStmt(Ident("x")) >>

\* let f = func() { const x = 1; x--; return x }
\* f()
Prog_ConstPostfixLocal ==
    << VarStmt("f", FuncLit(<< >>,
           << ConstStmt("x", IntLit(1)),
              PostfixStmt(Ident("x"), "--"),
              ReturnStmt(Some(Ident("x"))) >>)),
       ExprStmt(CallExpr(Ident("f"), << >>)) >>

\* let f = function() { try { return 1 } catch e { 2 } }
\* 0
\* 0
\* 0
\* f()
\* throw "x"
Prog_BackwardLoop ==
    << VarStmt("f", FuncLit(<< >>,
           << ExprStmt(TryExpr(<< ReturnStmt(Some(IntLit(1))) >>, Some("e"),
                               Some(<< ExprStmt(IntLit(2)) >>), None)) >>)),
       ExprStmt(IntLit(0)),
       ExprStmt(IntLit(0)),
       ExprStmt(IntLit(0)),
       ExprStmt(CallExpr(Ident("f"), << >>)),
       ThrowStmt(StringLit("x")) >>

Program(name, ast) == [name |-> name, ast |-> ast]

\* [1, 2, 3][i] and "abc"[i], for every i from -MaxIndex to MaxIndex
Prog_ListIndex(i) ==
    << ExprStmt(IndexExpr(ListLit(<< IntLit(1), IntLit(2), IntLit(3) >>), IntLit(i))) >>

Prog_StringIndex(i) == << ExprStmt(IndexExpr(StringLit("abc"), IntLit(i))) >>

IndexPrograms ==
    [j \in 1..(2 * MaxIndex + 1) |->
        Program("ListIndex" \o ToString(j - MaxIndex - 1),
                Prog_ListIndex(j - MaxIndex - 1))]
    \o [j \in 1..(2 * MaxIndex + 1) |->
        Program("StringIndex" \o ToString(j - MaxIndex - 1),
                Prog_StringIndex(j - MaxIndex - 1))]

Programs ==
    << Program("TryCatchFinally", Prog_TryCatchFinally),
       Program("Counter", Prog_Counter),
       Program("CounterList", Prog_CounterList),
       Program("DivideByZero", Prog_DivideByZero),
       Program("ModuloByZero", Prog_ModuloByZero),
       Program("UndefinedAttr", Prog_UndefinedAttr),
       Program("AddIntString", Prog_AddIntString),
       Program("UnpackInt", Prog_UnpackInt),
       Program("CallInt", Prog_CallInt),
       Program("PopEmpty", Prog_PopEmpty),
       Program("Recursion", Prog_Recursion),
       Program("TryFinallyNormal", Prog_TryFinallyNormal),
       Program("CatchThrows", Prog_CatchThrows),
       Program("TryFinallyThrow", Prog_TryFinallyThrow),
       Program("FinallyRethrow", Prog_FinallyRethrow),
       Program("SharedWrite", Prog_SharedWrite),
       Program("SharedRead", Prog_SharedRead),
       Program("DeepThrow", Prog_DeepThrow),
       Program("StaleHandler", Prog_StaleHandler),
       Program("CallbackRecursion", Prog_CallbackRecursion),
       Program("EachThenLet", Prog_EachThenLet),
       Program("Map", Prog_Map),
       Program("LetOnly", Prog_LetOnly),
       Program("Empty", Prog_Empty),
       Program("Undefined", Prog_Undefined),
       Program("ConstSame", Prog_ConstSame),
       Program("ConstGlobal", Prog_ConstGlobal),
       Program("ConstFree", Prog_ConstFree),
       Program("ConstFreeDeep", Prog_ConstFreeDeep),
       Program("ConstRead", Prog_ConstRead),
       Program("TryEach", Prog_TryEach),
       Program("NestedFinally", Prog_NestedFinally),
       Program("ThrowList", Prog_ThrowList),
       Program("ThrowInt", Prog_ThrowInt),
       Program("MatchSecond", Prog_MatchSecond),
       Program("MatchGuard", Prog_MatchGuard),
       Program("MatchDefault", Prog_MatchDefault),
       Program("MatchNone", Prog_MatchNone),
       Program("MatchOnce", Prog_MatchOnce),
       Program("DestructureDefault", Prog_DestructureDefault),
       Program("DestructurePresent", Prog_DestructurePresent),
       Program("DestructureInCall", Prog_DestructureInCall),
       Program("NullishLeft", Prog_NullishLeft),
       Program("NullishNil", Prog_NullishNil),
       Program("NullishInCall", Prog_NullishInCall),
       Program("UnpackPair", Prog_UnpackPair),
       Program("UnpackTriple", Prog_UnpackTriple),
       Program("KeyListLiteral", Prog_KeyListLiteral),
       Program("KeyListStore", Prog_KeyListStore),
       Program("KeyMapSet", Prog_KeyMapSet),
       Program("StoreIndex", Prog_StoreIndex),
       Program("AttrKey", Prog_AttrKey),
       Program("AttrMethodKey", Prog_AttrMethodKey),
       Program("AttrMethod", Prog_AttrMethod),
       Program("ArgsExtra", Prog_ArgsExtra),
       Program("ArgsMissing", Prog_ArgsMissing),
       Program("ArgsExact", Prog_ArgsExact),
       Program("SliceClamped", Prog_SliceClamped),
       Program("SliceTail", Prog_SliceTail),
       Program("SliceBeyond", Prog_SliceBeyond),
       Program("SliceReversed", Prog_SliceReversed),
       Program("SliceString", Prog_SliceString),
       Program("SliceStringReversed", Prog_SliceStringReversed),
       Program("DeepFirst", Prog_DeepFirst),
       Program("DeepSecond", Prog_DeepSecond),
       Program("DeepBoth", Prog_DeepBoth),
       Program("ReturnMidExpr", Prog_ReturnMidExpr),
       Program("TryMapThrow", Prog_TryMapThrow),
       Program("DeclareA", Prog_DeclareA),
       Program("DeclareB", Prog_DeclareB),
       Program("ConstPostfix", Prog_ConstPostfix),
       Program("ConstRelet", Prog_ConstRelet),
       Program("ConstPostfixLocal", Prog_ConstPostfixLocal),
       Program("BackwardLoop", Prog_BackwardLoop) >>
    \o IndexPrograms

NumPrograms == Len(Programs)

\* The syntax tree of the named program
AstOf(name) ==
    IF \E i \in 1..NumPrograms : Programs[i].name = name
    THEN Programs[CHOOSE i \in 1..NumPrograms : Programs[i].name = name].ast
    ELSE << >>

\* Code handed to VM::run as it is: a main unit of the given instructions
\* and constants
Bytecode(instructions, constants) ==
    [ok |-> TRUE, error |-> "",
     main |-> to_code([CodeBuilder_new EXCEPT !.instructions = instructions,
                                              !.constants = constants], 0, 0, << >>),
     funcs |-> << >>]

\* Nil; EndFinally; Halt
Code_EndFinallyClear == Bytecode(<< Op_Nil, Op_EndFinally, Op_Halt >>, << >>)

\* 0: PushExcept catch=8   3: LoadConst "a"   5: Throw   6: Nil   7: Halt
\* 8: Throw (the caught Error value, no handler left)   9: Halt
Code_RethrowError ==
    Bytecode(<< Op_PushExcept, 5, 65535, Op_LoadConst, 0, Op_Throw, Op_Nil, Op_Halt,
                Op_Throw, Op_Halt >>,
             << Constant_String("a") >>)

Bytecodes == << [name |-> "EndFinallyClear", code |-> Code_EndFinallyClear],
               [name |-> "RethrowError", code |-> Code_RethrowError] >>

\* ------------------------------------------------------------------------
\* Initial state: the program is compiled and VM::new has run.
\* ------------------------------------------------------------------------
Init ==
    /\ \/ \E i \in 1..NumPrograms :
             /\ program = Programs[i].name
             /\ code = compile(<< >>, Programs[i].ast)
       \/ \E i \in 1..Len(Bytecodes) :
             /\ program = Bytecodes[i].name
             /\ code = Bytecodes[i].code
    /\ status = "new"
    /\ result = Object_Nil
    /\ stack = << >>
    /\ sp = 0
    /\ frames = << >>
    /\ globals = << >>
    /\ global_names = << >>
    /\ exception_handlers = << >>
    /\ pending_exception = NoObject
    /\ lists = << >>
    /\ cells = << >>
    /\ native = << >>
    /\ sm = ScopeManager_new
    /\ last = [op |-> "new", name |-> "", res |-> NoneRes]
    /\ risor_map = RisorMap_new
    /\ inserted = << >>
    /\ builder = CodeBuilder_new
    /\ iter = RisorIter_new(<< >>)
    /\ calls = 0

\* run's registration of the code's global names
RECURSIVE RegisterGlobals(_, _, _, _)
RegisterGlobals(names, i, g, gn) ==
    IF i > Len(names) THEN [globals |-> g, global_names |-> gn]
    ELSE IF names[i] \in DOMAIN gn
         THEN RegisterGlobals(names, i + 1, g, gn)
         ELSE RegisterGlobals(names, i + 1, Append(g, Object_Nil),
                              MapInsert(gn, names[i], Len(g)))

\* eval: a compile error is returned, otherwise VM::run starts the main frame.
Run ==
    /\ status = "new"
    /\ IF ~code.ok
       THEN /\ status' = "compile_error"
            /\ result' = Object_Error(code.error)
            /\ UNCHANGED << stack, sp, frames, globals, global_names,
                            exception_handlers >>
       ELSE LET r == RegisterGlobals(code.main.global_names, 1, globals, global_names)
            IN /\ status' = "running"
               /\ result' = result
               /\ stack' = stack
               /\ sp' = 0
               /\ exception_handlers' = << >>
               /\ globals' = Pad(r.globals, code.main.global_count)
               /\ global_names' = r.global_names
               /\ frames' = << Frame_new(0, 0, NilVec(code.main.local_count), << >>) >>
    /\ UNCHANGED << program, code, pending_exception, lists, cells, native, sm, last, risor_map, inserted,
                    builder, iter, calls >>

\* The unit the host runs next on the same VM, "" when there is none.
NextUnit(name) == IF name = "DeclareA" THEN "DeclareB" ELSE ""

\* VM::run of a further code unit, compiled by a compiler of its own, on the
\* VM that has run a unit: the stack pointer, the frames and the handlers
\* are reset, the globals and their names stay.
RunNext ==
    /\ status = "ok"
    /\ NextUnit(program) # ""
    /\ program' = NextUnit(program)
    /\ code' = compile(<< >>, AstOf(NextUnit(program)))
    /\ LET unit == compile(<< >>, AstOf(NextUnit(program)))
           r == RegisterGlobals(unit.main.global_names, 1, globals, global_names)
       IN /\ status' = "running"
          /\ sp' = 0
          /\ exception_handlers' = << >>
          /\ globals' = Pad(r.globals, unit.main.global_count)
          /\ global_names' = r.global_names
          /\ frames' = << Frame_new(0, 0, NilVec(unit.main.local_count), << >>) >>
    /\ UNCHANGED << result, stack, pending_exception, lists, cells, native, sm, last,
                    risor_map, inserted, builder, iter, calls >>

\* ------------------------------------------------------------------------
\* How a step of execute ends
\* ------------------------------------------------------------------------

\* The step only moves the operand stack and the frames.
Step(st, fs) ==
    /\ stack' = st.stack
    /\ sp' = st.sp
    /\ frames' = fs
    /\ UNCHANGED << program, code, status, result, globals, global_names,
                    exception_handlers, pending_exception, lists, cells, native,
                    sm, last, risor_map, inserted,
                    builder, iter, calls >>

\* An Err propagates out of every execute on the Rust stack: run returns it.
Raise(msg) ==
    /\ status' = "error"
    /\ result' = Object_Error(msg)
    /\ UNCHANGED << program, code, stack, sp, frames, globals, global_names,
                    exception_handlers, pending_exception, lists, cells, native,
                    sm, last, risor_map, inserted,
                    builder, iter, calls >>

\* The innermost execute returns v to the list method that called it
\* (call_function): the method takes the next item or finishes, and op_call
\* pushes what it returns.
ReturnToBuiltin(v, st, fs, heap) ==
    LET n == native[Len(native)]
        items == heap[n.items]
        acc == IF n.name = "map" THEN Append(n.acc, v) ELSE n.acc
    IN IF n.i + 1 < Len(items)
       THEN LET item == items[n.i + 2]
                args == IF n.name = "each" THEN << item, Object_Int(n.i + 1) >>
                        ELSE << item >>
            IN /\ frames' = Append(fs, Frame_from_closure(n.func.n,
                                Code(n.func.n).local_count, n.func.fv, st.sp, args))
               /\ native' = [native EXCEPT ![Len(native)] =
                                [n EXCEPT !.i = n.i + 1, !.acc = acc,
                                          !.min_depth = Len(fs) + 1,
                                          !.sp = st.sp]]
               /\ stack' = st.stack
               /\ sp' = st.sp
               /\ lists' = heap
               /\ UNCHANGED << status, result >>
       ELSE /\ frames' = fs
            /\ native' = SubSeq(native, 1, Len(native) - 1)
            /\ IF st.sp >= MAX_STACK_DEPTH
               THEN /\ status' = "panic"
                    /\ result' = Object_Error("stack overflow")
                    /\ UNCHANGED << stack, sp, lists >>
               ELSE /\ UNCHANGED << status, result >>
                    /\ IF n.name = "map"
                       THEN LET s == push(st, Object_List(Len(heap) + 1))
                            IN stack' = s.stack /\ sp' = s.sp
                               /\ lists' = Append(heap, acc)
                       ELSE LET s == push(st, Object_Nil)
                            IN stack' = s.stack /\ sp' = s.sp /\ lists' = heap

\* execute returns Ok(v): to run when it is the outermost one, otherwise to
\* the list method iterating.
ExecuteReturns(v, st, fs) ==
    /\ IF native = << >>
       THEN /\ status' = "ok"
            /\ result' = v
            /\ stack' = st.stack
            /\ sp' = st.sp
            /\ frames' = fs
            /\ UNCHANGED << lists, native >>
       ELSE ReturnToBuiltin(v, st, fs, lists)
    /\ UNCHANGED << program, code, globals, global_names, exception_handlers,
                    pending_exception, cells, sm, last, risor_map, inserted,
                    builder, iter, calls >>

\* The loop of execute stops: the current frame is at its end (the value is
\* popped), or fewer frames than min_frame_depth are left (the value is read).
ExecuteLoopExit ==
    /\ status = "running"
    /\ frames # << >>
    /\ is_at_end \/ Len(frames) < min_frame_depth
    /\ IF is_at_end
       THEN ExecuteReturns(PopOrNil(St), IF sp > 0 THEN pop(St) ELSE St, frames)
       ELSE ExecuteReturns(PopOrNil(St), St, frames)

\* ------------------------------------------------------------------------
\* Instruction dispatch
\* ------------------------------------------------------------------------

\* An operand table that declares one slot for every opcode with operands.
operand_count_one(op) ==
    IF op \in {Op_Halt, Op_ReturnValue, Op_Nil, Op_False, Op_True, Op_PopTop,
               Op_PopExcept, Op_Throw, Op_EndFinally}
    THEN 0 ELSE 1

\* Op::operand_count, for the opcodes the compiler model emits; execute reads
\* as many slots after each of them.
operand_count(op) ==
    CASE op \in {Op_Halt, Op_ReturnValue, Op_Nil, Op_False, Op_True, Op_PopTop,
                 Op_PopExcept, Op_Throw, Op_EndFinally} -> 0
      [] op \in {Op_PopJumpForwardIfFalse, Op_PopJumpForwardIfNotNil, Op_CompareOp,
                 Op_LoadAttrOrNil, Op_BuildMap, Op_StoreSubscr,
                 Op_Call, Op_JumpForward, Op_LoadAttr, Op_LoadFast, Op_LoadFree,
                 Op_LoadGlobal, Op_LoadConst, Op_StoreFast, Op_StoreFree,
                 Op_StoreGlobal, Op_BinaryOp, Op_BuildList, Op_BinarySubscr,
                 Op_Unpack, Op_Swap, Op_Copy} -> 1
      [] op \in {Op_Slice, Op_LoadClosure, Op_MakeCell, Op_PushExcept} -> 2

Opcodes ==
    {Op_Halt, Op_ReturnValue, Op_Nil, Op_PopTop, Op_PopExcept, Op_Throw,
     Op_EndFinally, Op_Call, Op_JumpForward, Op_LoadAttr, Op_LoadFast,
     Op_LoadFree, Op_LoadGlobal, Op_LoadConst, Op_StoreFast, Op_StoreFree,
     Op_StoreGlobal, Op_BinaryOp, Op_BuildList, Op_BinarySubscr, Op_Unpack,
     Op_Swap, Op_Copy, Op_LoadClosure, Op_MakeCell, Op_PushExcept,
     Op_PopJumpForwardIfFalse, Op_PopJumpForwardIfNotNil, Op_CompareOp, Op_False,
     Op_True, Op_LoadAttrOrNil, Op_BuildMap, Op_StoreSubscr, Op_Slice}

\* The loop of execute goes on to read an instruction.
Fetches ==
    /\ status = "running"
    /\ frames # << >>
    /\ ~is_at_end
    /\ ~(Len(frames) < min_frame_depth)

\* s.chars().collect(), for the strings the programs hold
Chars(s) ==
    CASE s = "" -> << >>
      [] s = "a" -> << "a" >>
      [] s = "b" -> << "b" >>
      [] s = "c" -> << "c" >>
      [] s = "ab" -> << "a", "b" >>
      [] s = "bc" -> << "b", "c" >>
      [] s = "abc" -> << "a", "b", "c" >>

\* chars.iter().collect::<String>()
RECURSIVE Collect(_)
Collect(chars) == IF chars = << >> THEN "" ELSE chars[1] \o Collect(Tail(chars))

\* items.len() of a List, chars.len() of a String
SeqLen(obj) == IF obj.t = "list" THEN Len(lists[obj.n]) ELSE Len(Chars(obj.s))

\* op_slice: start.map(|i| if i < 0 { (len + i).max(0) } else { i })
\*               .unwrap_or(default), then .min(len)
slice_index(bound, len, default) ==
    LET i == IF bound.t = "nil" THEN default
             ELSE IF bound.n < 0
                  THEN (IF len + bound.n > 0 THEN len + bound.n ELSE 0)
                  ELSE bound.n
    IN IF i < len THEN i ELSE len

\* op_slice: items[s..e] with s > e is a slice index out of order, a panic.
SliceOutOfOrder(obj, low, high) ==
    /\ low.t \in {"nil", "int"}
    /\ high.t \in {"nil", "int"}
    /\ obj.t \in {"list", "string"}
    /\ slice_index(low, SeqLen(obj), 0) > slice_index(high, SeqLen(obj), SeqLen(obj))

\* The panics of the instruction about to run: a read past the end of the
\* instructions, push on a full stack, pop on an empty one, an index outside
\* a Vec, a mutable borrow of a list being iterated.
WouldPanic ==
    LET op == CurOp
        f == current_frame
        full == sp >= MAX_STACK_DEPTH
        a == Operand(1)
        b == Operand(2)
    IN IF f.ip + 1 + operand_count(op) > Len(CurCode.instructions) THEN TRUE
       ELSE
       CASE op = Op_Call ->
              IF sp - 1 - a < 0 THEN TRUE
              ELSE LET callable == peek(St, a)
                   IN /\ callable.t = "builtin"
                      /\ IF callable.fv # << >>
                         THEN \/ callable.s \in {"get", "delete", "has", "each"} /\ a < 2
                              \/ callable.s = "set" /\ a < 3
                         ELSE \/ callable.s \in {"append", "map", "each"} /\ a < 2
                              \/ callable.s \in {"append", "pop"} /\ Borrowed(callable.n)
         [] op = Op_ReturnValue -> sp = 0
         [] op = Op_LoadAttr -> sp = 0 \/ a >= Len(CurCode.names)
         [] op = Op_LoadFast -> a >= Len(f.locals) \/ full
         [] op = Op_LoadFree -> a >= Len(f.free_vars) \/ full
         [] op = Op_LoadGlobal -> a >= Len(globals) \/ full
         [] op = Op_LoadConst -> a >= Len(CurCode.constants) \/ full
         [] op = Op_StoreFast -> sp = 0 \/ a >= Len(f.locals)
         [] op = Op_StoreFree -> sp = 0 \/ a >= Len(f.free_vars)
         [] op = Op_StoreGlobal -> sp = 0 \/ a >= Len(globals)
         [] op = Op_BinaryOp -> sp < 2
         [] op = Op_BuildList -> sp < a \/ (a = 0 /\ full)
         [] op = Op_BinarySubscr -> sp < 2
         [] op = Op_Unpack -> sp = 0 \/ sp - 1 + a > MAX_STACK_DEPTH
         [] op = Op_Swap -> sp - 1 - a < 0
         [] op = Op_Copy -> sp - 1 - a < 0 \/ full
         [] op = Op_PopTop -> sp = 0
         [] op = Op_Nil -> full
         [] op = Op_False -> full
         [] op = Op_True -> full
         [] op = Op_PopJumpForwardIfFalse -> sp = 0
         [] op = Op_PopJumpForwardIfNotNil -> sp = 0
         [] op = Op_CompareOp -> sp < 2
         [] op = Op_LoadAttrOrNil -> sp = 0 \/ a >= Len(CurCode.names)
         [] op = Op_BuildMap -> sp < 2 * a \/ (a = 0 /\ full)
         [] op = Op_StoreSubscr ->
              \/ sp < 3
              \/ peek(St, 2).t = "list" /\ peek(St, 1).t = "int" /\ Borrowed(peek(St, 2).n)
         [] op = Op_Slice -> sp < 3 \/ SliceOutOfOrder(peek(St, 2), peek(St, 1), peek(St, 0))
         [] op = Op_Throw -> sp = 0
         [] op = Op_LoadClosure ->
              \/ a >= Len(CurCode.constants)
              \/ /\ CurCode.constants[a + 1].t = "Function"
                 /\ sp < b
                 /\ \A i \in 1..sp : stack[i].t = "cell"
         [] op = Op_MakeCell ->
              \/ full
              \/ IF b = 0 THEN a >= Len(f.locals) ELSE a >= Len(f.free_vars)
         [] OTHER -> FALSE

Dispatch(op) == Fetches /\ CurOp = op /\ ~WouldPanic

\* The process aborts.
Panic ==
    /\ Fetches
    /\ CurOp \in Opcodes
    /\ WouldPanic
    /\ status' = "panic"
    /\ UNCHANGED << program, code, result, stack, sp, frames, globals, global_names,
                    exception_handlers, pending_exception, lists, cells, native,
                    sm, last, risor_map, inserted,
                    builder, iter, calls >>

\* Op::Halt
OpHalt ==
    /\ Dispatch(Op_Halt)
    /\ ExecuteReturns(PopOrNil(St), IF sp > 0 THEN pop(St) ELSE St, Advance(1))

\* Op::Nil
OpNil == Dispatch(Op_Nil) /\ Step(push(St, Object_Nil), Advance(1))

\* Op::PopTop
OpPopTop == Dispatch(Op_PopTop) /\ Step(pop(St), Advance(1))

\* Op::JumpForward
OpJumpForward ==
    /\ Dispatch(Op_JumpForward)
    /\ Step(St, Advance(2 + Operand(1)))

\* Op::PopJumpForwardIfFalse
OpPopJumpForwardIfFalse ==
    /\ Dispatch(Op_PopJumpForwardIfFalse)
    /\ Step(pop(St),
            IF is_truthy(peek(St, 0), [lists |-> lists, cells |-> cells])
            THEN Advance(2) ELSE Advance(2 + Operand(1)))

\* Op::PopJumpForwardIfNotNil: a value that is not Nil is pushed back
OpPopJumpForwardIfNotNil ==
    /\ Dispatch(Op_PopJumpForwardIfNotNil)
    /\ IF peek(St, 0) # Object_Nil
       THEN Step(St, Advance(2 + Operand(1)))
       ELSE Step(pop(St), Advance(2))

\* Op::False and Op::True
OpFalse == Dispatch(Op_False) /\ Step(push(St, Object_Bool(FALSE)), Advance(1))

OpTrue == Dispatch(Op_True) /\ Step(push(St, Object_Bool(TRUE)), Advance(1))

\* VM::op_compare_op's result for the operands left and right
compare_result(op_type, left, right, heap) ==
    CASE op_type = CompareOpType_Eq ->
           Ok(Object_Bool(equals(left, right, heap)), heap.lists)
      [] op_type = CompareOpType_NotEq ->
           Ok(Object_Bool(~equals(left, right, heap)), heap.lists)
      [] OTHER ->
           IF ~compare(left, right).some THEN Err("cannot compare values", heap.lists)
           ELSE Ok(Object_Bool(
                CASE op_type = CompareOpType_Lt -> compare(left, right).v < 0
                  [] op_type = CompareOpType_LtEquals -> compare(left, right).v <= 0
                  [] op_type = CompareOpType_Gt -> compare(left, right).v > 0
                  [] op_type = CompareOpType_GtEquals -> compare(left, right).v >= 0),
                heap.lists)

\* Op::CompareOp / op_compare_op
OpCompareOp ==
    /\ Dispatch(Op_CompareOp)
    /\ LET r == compare_result(Operand(1), peek(St, 1), peek(St, 0),
                               [lists |-> lists, cells |-> cells])
       IN IF r.ok THEN Step(push(popn(St, 2), r.value), Advance(2))
          ELSE Raise(r.msg)

\* Op::LoadConst / op_load_const
OpLoadConst ==
    /\ Dispatch(Op_LoadConst)
    /\ Step(push(St, ConstantObject(CurCode.constants[Operand(1) + 1])), Advance(2))

\* Op::LoadFast
OpLoadFast ==
    /\ Dispatch(Op_LoadFast)
    /\ Step(push(St, current_frame.locals[Operand(1) + 1]), Advance(2))

\* Op::LoadGlobal
OpLoadGlobal ==
    /\ Dispatch(Op_LoadGlobal)
    /\ Step(push(St, globals[Operand(1) + 1]), Advance(2))

\* Frame::get_free
get_free(f, index) == cells[f.free_vars[index + 1]]

\* Op::LoadFree
OpLoadFree ==
    /\ Dispatch(Op_LoadFree)
    /\ Step(push(St, get_free(current_frame, Operand(1))), Advance(2))

\* Op::StoreFast
OpStoreFast ==
    /\ Dispatch(Op_StoreFast)
    /\ Step(pop(St),
            [Advance(2) EXCEPT ![Len(frames)].locals[Operand(1) + 1] = peek(St, 0)])

\* Op::StoreGlobal
OpStoreGlobal ==
    /\ Dispatch(Op_StoreGlobal)
    /\ globals' = [globals EXCEPT ![Operand(1) + 1] = peek(St, 0)]
    /\ stack' = pop(St).stack
    /\ sp' = sp - 1
    /\ frames' = Advance(2)
    /\ UNCHANGED << program, code, status, result, global_names, exception_handlers,
                    pending_exception, lists, cells, native, sm, last, risor_map, inserted,
                    builder, iter, calls >>

\* A set_free whose write is lost
set_free_lost(cs, f, index, value) == cs

\* Frame::set_free writes the cell the closure holds.
set_free(cs, f, index, value) == [cs EXCEPT ![f.free_vars[index + 1]] = value]

\* Op::StoreFree
OpStoreFree ==
    /\ Dispatch(Op_StoreFree)
    /\ cells' = set_free(cells, current_frame, Operand(1), peek(St, 0))
    /\ stack' = pop(St).stack
    /\ sp' = sp - 1
    /\ frames' = Advance(2)
    /\ UNCHANGED << program, code, status, result, globals, global_names,
                    exception_handlers, pending_exception, lists, native, sm, last, risor_map, inserted,
                    builder, iter, calls >>

\* Op::Swap
OpSwap ==
    /\ Dispatch(Op_Swap)
    /\ LET depth == Operand(1)
           top == peek(St, 0)
       IN Step([stack |-> [stack EXCEPT ![sp] = peek(St, depth),
                                        ![sp - depth] = top],
                sp |-> sp],
               Advance(2))

\* Op::Copy
OpCopy ==
    /\ Dispatch(Op_Copy)
    /\ Step(push(St, peek(St, Operand(1))), Advance(2))

\* The step moves the operand stack, the frames, the lists and the
\* iterating list methods.
StepHeap(st, fs, heap, nat) ==
    /\ stack' = st.stack
    /\ sp' = st.sp
    /\ frames' = fs
    /\ lists' = heap
    /\ native' = nat
    /\ UNCHANGED << program, code, status, result, globals, global_names,
                    exception_handlers, pending_exception, cells, sm, last, risor_map, inserted,
                    builder, iter, calls >>

\* The method of obj called name, else the property name of a Map, else None
attr_of(obj, name) ==
    IF get_method(obj, name) # NoObject THEN Some(get_method(obj, name))
    ELSE IF obj.t = "map" THEN RisorMap_get(lists[obj.n], Object_String(name))
    ELSE None

\* Op::LoadAttr / op_load_attr
OpLoadAttr ==
    /\ Dispatch(Op_LoadAttr)
    /\ LET obj == peek(St, 0)
           name == CurCode.names[Operand(1) + 1]
       IN IF attr_of(obj, name).some
          THEN Step(push(pop(St), attr_of(obj, name).v), Advance(2))
          ELSE Raise("attribute '" \o name \o "' not found on " \o type_name(obj))

\* Op::LoadAttrOrNil / op_load_attr_or_nil
OpLoadAttrOrNil ==
    /\ Dispatch(Op_LoadAttrOrNil)
    /\ LET obj == peek(St, 0)
           name == CurCode.names[Operand(1) + 1]
       IN IF attr_of(obj, name).some
          THEN Step(push(pop(St), attr_of(obj, name).v), Advance(2))
          ELSE Step(push(pop(St), Object_Nil), Advance(2))

\* for _ in 0..count { value = pop(); key = pop(); map.set(key, value) }
RECURSIVE build_map(_, _, _)
build_map(m, st, count) ==
    IF count = 0 THEN m
    ELSE build_map(RisorMap_set(m, peek(st, 1), peek(st, 0)), popn(st, 2), count - 1)

\* Op::BuildMap / op_build_map
OpBuildMap ==
    /\ Dispatch(Op_BuildMap)
    /\ StepHeap(push(popn(St, 2 * Operand(1)), Object_Map(Len(lists) + 1)),
                Advance(2),
                Append(lists, build_map(RisorMap_new, St, Operand(1))), native)

\* Op::BinaryOp / op_binary_op
OpBinaryOp ==
    /\ Dispatch(Op_BinaryOp)
    /\ LET r == binary_op(Operand(1), peek(St, 1), peek(St, 0), lists)
       IN IF r.ok
          THEN StepHeap(push(popn(St, 2), r.value), Advance(2), r.lists, native)
          ELSE Raise(r.msg)

\* Op::BuildList / op_build_list
OpBuildList ==
    /\ Dispatch(Op_BuildList)
    /\ LET count == Operand(1)
           items == [i \in 1..count |-> stack[sp - count + i]]
       IN StepHeap(push(popn(St, count), Object_List(Len(lists) + 1)),
                   Advance(2), Append(lists, items), native)

\* op_binary_subscr without the offset from the end: a negative index is
\* out of range.
OpBinarySubscr_from_start ==
    /\ Dispatch(Op_BinarySubscr)
    /\ LET index == peek(St, 0)
           obj == peek(St, 1)
       IN IF obj.t \in {"list", "string"} /\ index.t = "int"
          THEN LET items == IF obj.t = "list" THEN lists[obj.n] ELSE Chars(obj.s)
               IN IF index.n < 0 \/ index.n >= Len(items)
                  THEN Raise(obj.t \o " index out of range: " \o ToString(index.n))
                  ELSE Step(push(popn(St, 2),
                                 IF obj.t = "list" THEN items[index.n + 1]
                                 ELSE Object_String(items[index.n + 1])),
                            Advance(2))
          ELSE Raise("cannot index " \o type_name(obj))

\* Op::BinarySubscr / op_binary_subscr. (len as i64 + i) as usize of a sum
\* below zero wraps to a value no Vec is long enough for: idx < 0 here.
OpBinarySubscr ==
    /\ Dispatch(Op_BinarySubscr)
    /\ LET index == peek(St, 0)
           obj == peek(St, 1)
       IN CASE obj.t = "list" /\ index.t = "int" ->
                 LET items == lists[obj.n]
                     idx == IF index.n < 0 THEN Len(items) + index.n ELSE index.n
                 IN IF idx < 0 \/ idx >= Len(items)
                    THEN Raise("list index out of range: " \o ToString(index.n))
                    ELSE Step(push(popn(St, 2), items[idx + 1]), Advance(2))
            [] obj.t = "map" ->
                 Step(push(popn(St, 2),
                           IF RisorMap_get(lists[obj.n], index).some
                           THEN RisorMap_get(lists[obj.n], index).v
                           ELSE Object_Nil),
                      Advance(2))
            [] obj.t = "string" /\ index.t = "int" ->
                 LET chars == Chars(obj.s)
                     idx == IF index.n < 0 THEN Len(chars) + index.n ELSE index.n
                 IN IF idx < 0 \/ idx >= Len(chars)
                    THEN Raise("string index out of range: " \o ToString(index.n))
                    ELSE Step(push(popn(St, 2), Object_String(chars[idx + 1])),
                              Advance(2))
            [] OTHER -> Raise("cannot index " \o type_name(obj))

\* Op::Slice / op_slice
OpSlice ==
    /\ Dispatch(Op_Slice)
    /\ LET high == peek(St, 0)
           low == peek(St, 1)
           obj == peek(St, 2)
           s == slice_index(low, SeqLen(obj), 0)
           e == slice_index(high, SeqLen(obj), SeqLen(obj))
       IN IF low.t \notin {"nil", "int"} \/ high.t \notin {"nil", "int"}
          THEN Raise("slice indices must be integers")
          ELSE CASE obj.t = "list" ->
                      StepHeap(push(popn(St, 3), Object_List(Len(lists) + 1)),
                               Advance(3),
                               Append(lists, SubSeq(lists[obj.n], s + 1, e)), native)
                 [] obj.t = "string" ->
                      Step(push(popn(St, 3),
                                Object_String(Collect(SubSeq(Chars(obj.s), s + 1, e)))),
                           Advance(3))
                 [] OTHER -> Raise("cannot slice " \o type_name(obj))

\* Op::StoreSubscr / op_store_subscr
OpStoreSubscr ==
    /\ Dispatch(Op_StoreSubscr)
    /\ LET value == peek(St, 0)
           index == peek(St, 1)
           obj == peek(St, 2)
       IN CASE obj.t = "list" /\ index.t = "int" ->
                 LET items == lists[obj.n]
                     idx == IF index.n < 0 THEN Len(items) + index.n ELSE index.n
                 IN IF idx < 0 \/ idx >= Len(items)
                    THEN Raise("list index out of range: " \o ToString(index.n))
                    ELSE StepHeap(popn(St, 3), Advance(2),
                                  [lists EXCEPT ![obj.n][idx + 1] = value], native)
            [] obj.t = "map" ->
                 StepHeap(popn(St, 3), Advance(2),
                          [lists EXCEPT ![obj.n] = RisorMap_set(@, index, value)], native)
            [] OTHER -> Raise("cannot index-assign to " \o type_name(obj))

\* The pushes of op_unpack: items[count - 1] first, items[0] last.
RECURSIVE PushRev(_, _, _)
PushRev(st, items, i) ==
    IF i = 0 THEN st ELSE PushRev(push(st, items[i]), items, i - 1)

\* Op::Unpack / op_unpack
OpUnpack ==
    /\ Dispatch(Op_Unpack)
    /\ LET count == Operand(1)
           obj == peek(St, 0)
       IN IF obj.t = "list"
          THEN IF Len(lists[obj.n]) < count
               THEN Raise("not enough values to unpack: expected "
                          \o ToString(count) \o ", got " \o ToString(Len(lists[obj.n])))
               ELSE Step(PushRev(pop(St), lists[obj.n], count), Advance(2))
          ELSE Raise("cannot unpack " \o type_name(obj))

\* BuiltinContext::call_function for the first item of a list method: the
\* frame is pushed whatever the number of frames.
StartCallback(name, id, func, st, fs) ==
    LET item == lists[id][1]
        args == IF name = "each" THEN << item, Object_Int(0) >> ELSE << item >>
    IN IF func.t = "closure"
       THEN StepHeap(st,
                Append(fs, Frame_from_closure(func.n, Code(func.n).local_count,
                                              func.fv, st.sp, args)),
                lists,
                Append(native, [name |-> name, items |-> id, i |-> 0, func |-> func,
                                acc |-> << >>, min_depth |-> Len(fs) + 1,
                                sp |-> st.sp]))
       ELSE func.t # "builtin" /\ Raise("cannot call " \o type_name(func))

\* Builtin::call for the map methods that do not enumerate the map
CallMapBuiltin(builtin, args, st, fs) ==
    LET id == builtin.n
        map == lists[id]
    IN CASE builtin.s = "len" -> Step(push(st, Object_Int(RisorMap_len(map))), fs)
         [] builtin.s = "get" ->
              Step(push(st, IF RisorMap_get(map, args[2]).some
                            THEN RisorMap_get(map, args[2]).v
                            ELSE IF Len(args) > 2 THEN args[3] ELSE Object_Nil), fs)
         [] builtin.s = "set" ->
              StepHeap(push(st, Object_Nil), fs,
                       [lists EXCEPT ![id] = RisorMap_set(map, args[2], args[3])], native)
         [] builtin.s = "delete" ->
              StepHeap(push(st, Object_Bool(RisorMap_has(map, args[2]))), fs,
                       [lists EXCEPT ![id] = RisorMap_delete(map, args[2])], native)
         [] builtin.s = "has" ->
              Step(push(st, Object_Bool(RisorMap_has(map, args[2]))), fs)

\* Builtin::call for the list methods
CallBuiltin(builtin, args, st, fs) ==
    LET id == builtin.n
        items == lists[id]
    IN CASE builtin.fv # << >> -> CallMapBuiltin(builtin, args, st, fs)
         [] builtin.s = "len" ->
              Step(push(st, Object_Int(Len(items))), fs)
         [] builtin.s = "append" ->
              StepHeap(push(st, Object_Nil), fs,
                       [lists EXCEPT ![id] = Append(items, args[2])], native)
         [] builtin.s = "pop" ->
              IF items = << >> THEN Raise("pop from empty list")
              ELSE StepHeap(push(st, items[Len(items)]), fs,
                            [lists EXCEPT ![id] = SubSeq(items, 1, Len(items) - 1)],
                            native)
         [] builtin.s \in {"map", "each"} ->
              IF items = << >>
              THEN IF builtin.s = "map"
                   THEN StepHeap(push(st, Object_List(Len(lists) + 1)), fs,
                                 Append(lists, << >>), native)
                   ELSE Step(push(st, Object_Nil), fs)
              ELSE StartCallback(builtin.s, id, args[2], st, fs)

\* Op::Call / op_call
OpCall ==
    /\ Dispatch(Op_Call)
    /\ LET arg_count == Operand(1)
           callable == peek(St, arg_count)
           args == [i \in 1..arg_count |-> stack[sp - arg_count + i]]
           st == popn(St, arg_count + 1)
       IN CASE callable.t = "closure" ->
                 IF Len(frames) >= MAX_FRAME_DEPTH
                 THEN Raise("call stack overflow")
                 ELSE Step(st, Append(Advance(2),
                               Frame_from_closure(callable.n,
                                   Code(callable.n).local_count, callable.fv,
                                   st.sp, args)))
            [] callable.t = "builtin" -> CallBuiltin(callable, args, st, Advance(2))
            [] OTHER -> Raise("cannot call " \o type_name(callable))

\* Op::ReturnValue / op_return_value
OpReturnValue ==
    /\ Dispatch(Op_ReturnValue)
    /\ LET value == peek(St, 0)
           fs == SubSeq(frames, 1, Len(frames) - 1)
       IN IF fs = << >>
          THEN ExecuteReturns(value, pop(St), fs)
          ELSE Step(St, fs)

\* Op::LoadClosure / op_load_closure
OpLoadClosure ==
    /\ Dispatch(Op_LoadClosure)
    /\ LET constant == CurCode.constants[Operand(1) + 1]
           count == Operand(2)
           popped == [i \in 1..count |-> stack[sp - count + i]]
       IN IF constant.t # "Function"
          THEN Raise("expected function constant for closure")
          ELSE IF \E i \in 1..count : i <= sp /\ stack[sp + 1 - i].t # "cell"
          THEN Raise("expected cell for closure free variable")
          ELSE Step(push(popn(St, count),
                         Object_Closure(constant.n,
                                        [i \in 1..count |-> popped[i].n])),
                    Advance(3))

\* Op::MakeCell / op_make_cell
OpMakeCell ==
    /\ Dispatch(Op_MakeCell)
    /\ LET local_index == Operand(1)
           depth == Operand(2)
       IN IF depth = 0
          THEN /\ cells' = Append(cells, current_frame.locals[local_index + 1])
               /\ stack' = push(St, Object_Cell(Len(cells) + 1)).stack
          ELSE /\ cells' = cells
               /\ stack' = push(St, Object_Cell(current_frame.free_vars[local_index + 1])).stack
    /\ sp' = sp + 1
    /\ frames' = Advance(3)
    /\ UNCHANGED << program, code, status, result, globals, global_names,
                    exception_handlers, pending_exception, lists, native, sm, last, risor_map, inserted,
                    builder, iter, calls >>

\* Op::PushExcept / op_push_except
OpPushExcept ==
    /\ Dispatch(Op_PushExcept)
    /\ LET ip == current_frame.ip + 3
           catch_offset == Operand(1)
           finally_offset == Operand(2)
       IN exception_handlers' = Append(exception_handlers,
              ExceptionHandler(ip,
                  IF catch_offset = 65535 THEN USIZE_MAX ELSE ip + catch_offset,
                  IF finally_offset = 65535 THEN USIZE_MAX ELSE ip + finally_offset,
                  sp, Len(frames)))
    /\ frames' = Advance(3)
    /\ UNCHANGED << program, code, status, result, stack, sp, globals, global_names,
                    pending_exception, lists, cells, native, sm, last, risor_map, inserted,
                    builder, iter, calls >>

\* Op::PopExcept
OpPopExcept ==
    /\ Dispatch(Op_PopExcept)
    /\ exception_handlers' = SubSeq(exception_handlers, 1, Len(exception_handlers) - 1)
    /\ frames' = Advance(1)
    /\ UNCHANGED << program, code, status, result, stack, sp, globals, global_names,
                    pending_exception, lists, cells, native, sm, last, risor_map, inserted,
                    builder, iter, calls >>

\* The error is handed to handle_exception; run returns it when no handler
\* takes it.
Unwind(error, st, fs, pending) ==
    LET h == handle_exception(exception_handlers, fs, st, pending, error)
    IN IF h.handled
       THEN /\ exception_handlers' = h.exception_handlers
            /\ frames' = h.frames
            /\ stack' = h.st.stack
            /\ sp' = h.st.sp
            /\ pending_exception' = h.pending_exception
            /\ UNCHANGED << program, code, status, result, globals, global_names,
                            lists, cells, native, sm, last, risor_map, inserted,
                    builder, iter, calls >>
       ELSE /\ status' = "error"
            /\ result' = Object_Error(error.s)
            /\ exception_handlers' = h.exception_handlers
            /\ frames' = h.frames
            /\ stack' = h.st.stack
            /\ sp' = h.st.sp
            /\ pending_exception' = pending
            /\ UNCHANGED << program, code, globals, global_names, lists, cells,
                            native, sm, last, risor_map, inserted,
                    builder, iter, calls >>

\* A Throw that converts every value, Error values too, by its display form
OpThrow_displays_errors ==
    /\ Dispatch(Op_Throw)
    /\ Unwind(Object_Error(Display(peek(St, 0), [lists |-> lists, cells |-> cells])),
              pop(St), Advance(1), pending_exception)

\* Op::Throw / op_throw
OpThrow ==
    /\ Dispatch(Op_Throw)
    /\ LET value == peek(St, 0)
           error == IF value.t = "error" THEN value
                    ELSE Object_Error(Display(value, [lists |-> lists, cells |-> cells]))
       IN Unwind(error, pop(St), Advance(1), pending_exception)

\* An EndFinally that never re-raises
OpEndFinally_falls_through == Dispatch(Op_EndFinally) /\ Step(St, Advance(1))

\* Op::EndFinally / op_end_finally
OpEndFinally ==
    /\ Dispatch(Op_EndFinally)
    /\ IF pending_exception # NoObject
       THEN Unwind(pending_exception, St, Advance(1), NoObject)
       ELSE Step(St, Advance(1))

\* ------------------------------------------------------------------------
Next ==
    \/ Run
    \/ RunNext
    \/ ExecuteLoopExit
    \/ Panic
    \/ OpHalt
    \/ OpNil
    \/ OpPopTop
    \/ OpJumpForward
    \/ OpLoadConst
    \/ OpLoadFast
    \/ OpLoadGlobal
    \/ OpLoadFree
    \/ OpStoreFast
    \/ OpStoreGlobal
    \/ OpStoreFree
    \/ OpSwap
    \/ OpCopy
    \/ OpLoadAttr
    \/ OpBinaryOp
    \/ OpBuildList
    \/ OpBinarySubscr
    \/ OpUnpack
    \/ OpCall
    \/ OpReturnValue
    \/ OpLoadClosure
    \/ OpMakeCell
    \/ OpPushExcept
    \/ OpPopExcept
    \/ OpThrow
    \/ OpEndFinally
    \/ OpPopJumpForwardIfFalse
    \/ OpPopJumpForwardIfNotNil
    \/ OpFalse
    \/ OpTrue
    \/ OpCompareOp
    \/ OpLoadAttrOrNil
    \/ OpBuildMap
    \/ OpStoreSubscr
    \/ OpSlice

Spec == Init /\ [][Next]_vars

\* ------------------------------------------------------------------------
\* Properties of the virtual machine
\* ------------------------------------------------------------------------

\* eval has returned, or the process has aborted.
Terminated == status \in {"ok", "error", "panic", "compile_error"}

\* Value of the global variable name
Global(name) == globals[global_names[name] + 1]

\* Items of the list the global variable name holds
GlobalItems(name) == lists[Global(name).n]

\* An instruction is about to run under a try handler.
UnderHandler == Fetches /\ ~WouldPanic /\ exception_handlers # << >>

\* C1: a runtime error raised by an opcode other than Throw while a try
\* handler is on the exception-handler stack is delivered to the handler:
\* run does not return the error.
C1_RuntimeErrorsCaught ==
    [][(UnderHandler /\ CurOp \notin {Op_Throw, Op_EndFinally})
         => status' # "error"]_vars

\* C2: the finally block runs exactly once on every exit from the try: the
\* log ends as [Error(boom), "f"] when the exception was caught, as
\* ["t", "f"] after normal completion of the try body, and as ["f"] when the
\* catch block itself throws.
C2_FinallyRunsOnce ==
    Terminated =>
        /\ program = "TryCatchFinally"
              => GlobalItems("log") = << Object_Error("boom"), Object_String("f") >>
        /\ program = "TryFinallyNormal"
              => GlobalItems("log") = << Object_String("t"), Object_String("f") >>
        /\ program = "CatchThrows"
              => GlobalItems("log") = << Object_String("f") >>

\* The handler on top of the handler stack was pushed by the PushExcept
\* that has just run in the current frame.
JustPushed ==
    /\ status = "running"
    /\ exception_handlers # << >>
    /\ frames # << >>
    /\ exception_handlers[Len(exception_handlers)].frame_depth = Len(frames)
    /\ exception_handlers[Len(exception_handlers)].start = current_frame.ip
    /\ current_frame.ip >= 3
    /\ CurCode.instructions[current_frame.ip - 2] = Op_PushExcept

\* C3: the absolute catch and finally targets PushExcept computes are the
\* start offsets of the regions as the compiler emitted them (the entry of
\* the code's exception table), so the thrown error is stored into the catch
\* variable and is not left on the operand stack.
C3_TargetsAreRegionStarts ==
    /\ JustPushed =>
          \E i \in 1..Len(CurCode.exception_handlers) :
              LET e == CurCode.exception_handlers[i]
                  h == exception_handlers[Len(exception_handlers)]
              IN /\ e.start + 3 = h.start
                 /\ e.catch_offset = h.catch_offset
                 /\ e.finally_offset = h.finally_offset
    /\ (program = "TryCatchFinally" /\ Terminated)
          => Global("e") = Object_Error("boom") /\ sp = 0

\* C4: a local captured by nested closures is one shared binding: after G
\* assigned 2 to v, H and F read 2; after F assigned 5 to v, G reads 5.
C4_SharedBinding ==
    Terminated =>
        /\ program = "SharedWrite"
              => /\ status = "ok"
                 /\ result.t = "list"
                 /\ lists[result.n] = << Object_Int(2), Object_Int(2) >>
        /\ program = "SharedRead" => status = "ok" /\ result = Object_Int(5)

\* C5: the writes a closure makes to its captured variable persist across
\* the calls of that closure value: the k-th call of the counter returns k
\* (the third call returns 3).
C5_CounterPersists ==
    Terminated =>
        /\ program = "Counter" => status = "ok" /\ result = Object_Int(3)
        /\ program = "CounterList"
              => /\ status = "ok"
                 /\ result.t = "list"
                 /\ lists[result.n] = << Object_Int(1), Object_Int(2), Object_Int(3) >>

\* The three calls of the counter returned and were collected.
C5_Witness ==
    /\ program = "CounterList"
    /\ status = "ok"
    /\ result.t = "list"
    /\ Len(lists[result.n]) = 3
    /\ Len(cells) >= 1

\* The unwinder is about to be handed an error.
Raises ==
    /\ UnderHandler
    /\ \/ CurOp = Op_Throw
       \/ CurOp = Op_EndFinally /\ pending_exception # NoObject

\* C6: when the unwinder dispatches an error to a handler (the topmost
\* handler left on the stack once it has run is the one below it), the
\* frame-stack depth is the one the handler recorded and the operand-stack
\* depth is the recorded one, plus one for the error when the handler has a
\* catch target.
C6_UnwindRestoresDepths ==
    [][(Raises /\ status' = "running")
         => LET h == exception_handlers[Len(exception_handlers') + 1]
            IN /\ Len(frames') = h.frame_depth
               /\ sp' = h.stack_depth + (IF h.catch_offset # USIZE_MAX THEN 1 ELSE 0)]_vars

\* C7: the frame stack never holds more than MAX_FRAME_DEPTH frames,
\* whether a frame is pushed by Call or by a list method calling back.
C7_FrameLimit == Len(frames) <= MAX_FRAME_DEPTH

\* C8: run returns Nil when the program is empty or its last statement is
\* not an expression statement, and the value of the last statement when it
\* is a value-producing expression statement (3 for the counter, [2, 3] for
\* the map), whatever the statements before did.
C8_ResultOfLastStatement ==
    status = "ok" =>
        /\ (AstOf(program) = << >> \/ AstOf(program)[Len(AstOf(program))].k # "Expr")
              => result = Object_Nil
        /\ program = "Counter" => result = Object_Int(3)
        /\ program = "Map"
              => result.t = "list" /\ lists[result.n] = << Object_Int(2), Object_Int(3) >>

\* ------------------------------------------------------------------------
\* The scope manager driven through its public operations
\* ------------------------------------------------------------------------
InitScopes == Init /\ program = "Empty"

\* Number of symbols declared over the whole scope stack.
RECURSIVE TotalSymbols(_, _)
TotalSymbols(sc, i) ==
    IF i > Len(sc) THEN 0 ELSE Len(sc[i].symbols) + TotalSymbols(sc, i + 1)

\* ScopeManager::insert_variable
InsertVariable(name) ==
    /\ TotalSymbols(sm, 1) < MaxSymbols
    /\ sm' = WithCurrent(sm, insert_variable(sm[Len(sm)], name).table)
    /\ last' = [op |-> "insert_variable", name |-> name, res |-> NoneRes]
    /\ UNCHANGED << vmvars, risor_map, inserted,
                    builder, iter, calls >>

\* ScopeManager::insert_constant
InsertConstant(name) ==
    /\ TotalSymbols(sm, 1) < MaxSymbols
    /\ sm' = WithCurrent(sm, insert_constant(sm[Len(sm)], name).table)
    /\ last' = [op |-> "insert_constant", name |-> name, res |-> NoneRes]
    /\ UNCHANGED << vmvars, risor_map, inserted,
                    builder, iter, calls >>

\* ScopeManager::enter_function
EnterFunction ==
    /\ Len(sm) < MaxScopes
    /\ sm' = enter_function(sm)
    /\ last' = [op |-> "enter_function", name |-> "", res |-> NoneRes]
    /\ UNCHANGED << vmvars, risor_map, inserted,
                    builder, iter, calls >>

\* ScopeManager::enter_block
EnterBlock ==
    /\ Len(sm) < MaxScopes
    /\ sm' = enter_block(sm)
    /\ last' = [op |-> "enter_block", name |-> "", res |-> NoneRes]
    /\ UNCHANGED << vmvars, risor_map, inserted,
                    builder, iter, calls >>

\* ScopeManager::exit_scope
ExitScope ==
    /\ ~is_root(sm)
    /\ sm' = exit_scope(sm)
    /\ last' = [op |-> "exit_scope", name |-> "", res |-> NoneRes]
    /\ UNCHANGED << vmvars, risor_map, inserted,
                    builder, iter, calls >>

\* ScopeManager::resolve
Resolve(name) ==
    /\ sm' = resolve(sm, name).scopes
    /\ last' = [op |-> "resolve", name |-> name, res |-> resolve(sm, name).res]
    /\ UNCHANGED << vmvars, risor_map, inserted,
                    builder, iter, calls >>

NextScopes ==
    \/ \E name \in Names : InsertVariable(name)
    \/ \E name \in Names : InsertConstant(name)
    \/ EnterFunction
    \/ EnterBlock
    \/ ExitScope
    \/ \E name \in Names : Resolve(name)

SpecScopes == InitScopes /\ [][NextScopes]_vars

\* ------------------------------------------------------------------------
\* Properties of name resolution
\* ------------------------------------------------------------------------

\* Index of the innermost scope of the stack that declares name, 0 if none.
Innermost(sc, name) ==
    IF \E i \in 1..Len(sc) : name \in DOMAIN sc[i].symbols_by_name
    THEN CHOOSE i \in 1..Len(sc) :
            /\ name \in DOMAIN sc[i].symbols_by_name
            /\ \A j \in (i + 1)..Len(sc) : name \notin DOMAIN sc[j].symbols_by_name
    ELSE 0

\* Number of function scopes strictly inside scope i.
FunctionsInside(sc, i) == Cardinality({j \in (i + 1)..Len(sc) : ~sc[j].is_block})

\* C9: resolve(name) answers by the innermost scope declaring the name: no
\* resolution when no scope on the stack declares it, Global when that scope
\* is the root, Local with the declared slot index when no function boundary
\* lies between it and the current scope, and Free with depth >= 1 otherwise.
C9_ResolveKinds ==
    last.op = "resolve" =>
        LET i == Innermost(sm, last.name)
            res == last.res
        IN IF i = 0 THEN ~IsSome(res)
           ELSE /\ res.symbol = sm[i].symbols_by_name[last.name]
                /\ IF i = 1 THEN res.scope = "Global"
                   ELSE IF FunctionsInside(sm, i) = 0
                   THEN res.scope = "Local" /\ res.symbol.index < Len(sm[i].symbols)
                   ELSE res.scope = "Free" /\ res.depth >= 1

\* A resolve from two functions below the declaring function came out Free.
C9_Witness ==
    /\ last.op = "resolve"
    /\ last.res.scope = "Free"
    /\ Innermost(sm, last.name) = 2
    /\ FunctionsInside(sm, 2) = 2
    /\ last.res.depth >= 1

\* A resolve of a root binding from inside nested functions came out Global.
C9_WitnessGlobal ==
    /\ last.op = "resolve"
    /\ last.res.scope = "Global"
    /\ Len(sm) >= 3

\* C10: a resolve of a name whose innermost declaration is in the root
\* scope, made from inside nested scopes, yields Global and leaves the
\* free-variable lists of every scope on the stack as they were.
C10_GlobalNoUpvalue ==
    [][(last'.op = "resolve" /\ Len(sm) > 1 /\ Innermost(sm, last'.name) = 1)
        => /\ last'.res.scope = "Global"
           /\ Len(sm') = Len(sm)
           /\ \A i \in 1..Len(sm) :
                 /\ sm'[i].free_vars = sm[i].free_vars
                 /\ sm'[i].free_by_name = sm[i].free_by_name]_vars

\* A root binding was resolved from the third function level while the
\* function in between declares nothing of that name.
C10_Witness ==
    /\ last.op = "resolve"
    /\ Innermost(sm, last.name) = 1
    /\ Len(sm) >= 3
    /\ \A i \in 2..Len(sm) : ~sm[i].is_block
    /\ last.res.scope = "Global"
    /\ \A i \in 1..Len(sm) : last.name \notin DOMAIN sm[i].free_by_name


\* C11: once a resolve from a function came out Free, resolving the same
\* name again from there returns the same upvalue index and leaves the
\* free-variable count of every scope on the stack as it is.
C11_ResolveTwice ==
    (last.op = "resolve" /\ last.res.scope = "Free") =>
        /\ resolve(sm, last.name).res.scope = "Free"
        /\ resolve(sm, last.name).res.free_index = last.res.free_index
        /\ \A i \in 1..Len(sm) :
              free_count(resolve(sm, last.name).scopes[i]) = free_count(sm[i])

\* The second name a function captured was resolved: it has upvalue index 1
\* and the function holds two free variables.
C11_Witness ==
    /\ last.op = "resolve"
    /\ last.res.scope = "Free"
    /\ last.res.free_index = 1
    /\ ~sm[Len(sm)].is_block
    /\ free_count(sm[Len(sm)]) = 2
\* The programs that assign to a const binding: declared in the same scope,
\* reached as a global from inside a function, captured as a free variable
\* from one and from two functions up.
AssignsToConst == {"ConstSame", "ConstGlobal", "ConstFree", "ConstFreeDeep"}

\* C12: compiling an assignment whose target resolves to a const binding
\* fails with a compile error and produces no code unit, and eval returns
\* that error without running anything; a program that only reads its const
\* compiles and runs.
C12_ConstAssignRejected ==
    /\ program \in AssignsToConst =>
          /\ ~code.ok
          /\ code.error = "cannot assign to constant"
          /\ code.funcs = << >>
          /\ code.main.instructions = << >>
          /\ status \in {"new", "compile_error"}
          /\ frames = << >>
    /\ program = "ConstRead" =>
          /\ code.ok
          /\ Terminated => status = "ok" /\ result = Object_Int(3)

\* eval returned the compile error of an assignment to a captured const.
C12_Witness ==
    /\ program = "ConstFreeDeep"
    /\ status = "compile_error"
    /\ result = Object_Error("cannot assign to constant")

\* The entries of the current code's exception table whose try region holds
\* the instruction about to run
RegionsHere ==
    {i \in 1..Len(CurCode.exception_handlers) :
        /\ CurCode.exception_handlers[i].start < current_frame.ip
        /\ current_frame.ip < CurCode.exception_handlers[i].end}

\* PopExcept is about to run and the handler on top of the handler stack is
\* the one pushed by the PushExcept of the innermost try region around it.
AtOwnPopExcept ==
    /\ Dispatch(Op_PopExcept)
    /\ exception_handlers # << >>
    /\ exception_handlers[Len(exception_handlers)].frame_depth = Len(frames)
    /\ \E i \in RegionsHere :
          /\ \A j \in RegionsHere :
                CurCode.exception_handlers[j].start <= CurCode.exception_handlers[i].start
          /\ exception_handlers[Len(exception_handlers)].start
                = CurCode.exception_handlers[i].start + 3

\* Programs whose try body calls a list method that calls back
CallbackInTry == {"TryEach"}

SomeHandlerTakes ==
    \E i \in 1..Len(exception_handlers) :
        \/ exception_handlers[i].catch_offset # USIZE_MAX
        \/ exception_handlers[i].finally_offset # USIZE_MAX

\* C14: EndFinally with the pending-exception register set clears it and
\* re-raises that error: the next handler receives it (on the stack at its
\* catch target, or back in the register at its finally target), or run
\* returns it when no handler remains. EndFinally with the register clear
\* only moves to the next instruction.
C14_EndFinally ==
    [][Dispatch(Op_EndFinally) =>
         IF pending_exception = NoObject
         THEN /\ frames' = Advance(1)
              /\ UNCHANGED << program, code, status, result, stack, sp, globals,
                              global_names, exception_handlers, pending_exception,
                              lists, cells, native >>
         ELSE IF SomeHandlerTakes
         THEN LET h == exception_handlers[Len(exception_handlers') + 1]
              IN /\ status' = "running"
                 /\ Len(exception_handlers') < Len(exception_handlers)
                 /\ IF h.catch_offset # USIZE_MAX
                    THEN /\ pending_exception' = NoObject
                         /\ stack'[sp'] = pending_exception
                         /\ frames'[Len(frames')].ip = h.catch_offset
                    ELSE /\ pending_exception' = pending_exception
                         /\ frames'[Len(frames')].ip = h.finally_offset
         ELSE /\ status' = "error"
              /\ result' = pending_exception
              /\ pending_exception' = NoObject]_vars

\* The error a finally block held was re-raised by EndFinally and has
\* reached the catch target of the enclosing try.
C14_Witness ==
    /\ program = "NestedFinally"
    /\ status = "running"
    /\ pending_exception = NoObject
    /\ exception_handlers = << >>
    /\ sp >= 1
    /\ stack[sp] = Object_Error("a")
    /\ GlobalItems("log") = << Object_String("f") >>

\* Text of the value a Throw is about to raise
ThrownText ==
    IF stack[sp].t = "error" THEN stack[sp].s
    ELSE Display(stack[sp], [lists |-> lists, cells |-> cells])

\* C15: a Throw executed with an empty handler stack makes run return an
\* error whose message is the thrown value's text (the display form of a
\* non-Error value, the message of an Error value), and nothing executes
\* after run has returned an error.
C15_UnhandledThrow ==
    [][/\ status # "error"
       /\ (Dispatch(Op_Throw) /\ exception_handlers = << >>) =>
              /\ status' = "error"
              /\ result' = Object_Error(ThrownText)
       /\ (Dispatch(Op_Throw) /\ exception_handlers = << >> /\ program = "ThrowList")
              => result' = Object_Error("[1, 2]")
       /\ (Dispatch(Op_Throw) /\ exception_handlers = << >> /\ program = "ThrowInt")
              => result' = Object_Error("42")
       /\ (Dispatch(Op_Throw) /\ exception_handlers = << >> /\ program = "RethrowError")
              => result' = Object_Error("a")]_vars

\* The Error value caught by the first handler was thrown again with no
\* handler left, and run returned it.
C15_Witness ==
    /\ program = "RethrowError"
    /\ status = "error"
    /\ result = Object_Error("a")
    /\ exception_handlers = << >>
    /\ current_frame.ip = 9

\* C16: a match expression evaluates to the result of the first arm, in
\* source order, whose literal equals the subject and whose guard, if any, is
\* truthy; to the wildcard arm's result when no arm is selected, Nil when
\* there is no wildcard arm. Only the selected result is evaluated, and the
\* match leaves exactly one value between the values around it.
C16_MatchSelectsFirstArm ==
    (Terminated /\ program \in {"MatchSecond", "MatchGuard", "MatchDefault",
                                "MatchNone", "MatchOnce"}) =>
        /\ status = "ok"
        /\ program = "MatchSecond" => result = Object_String("two")
        /\ program = "MatchGuard" => result = Object_String("b")
        /\ program = "MatchDefault" =>
              /\ GlobalItems("r") = << Object_Int(10), Object_Int(7), Object_Int(30) >>
              /\ GlobalItems("log") = << >>
        /\ program = "MatchNone" =>
              /\ GlobalItems("r") = << Object_Int(10), Object_Nil, Object_Int(30) >>
              /\ GlobalItems("log") = << >>
        /\ program = "MatchOnce" =>
              /\ Len(GlobalItems("r")) = 3
              /\ GlobalItems("r")[1] = Object_Int(10)
              /\ GlobalItems("r")[3] = Object_Int(30)
              /\ GlobalItems("log") = << Object_String("one") >>

\* The first arm's guard was false, the second arm's guard true: the match
\* has produced the second arm's result.
C16_Witness ==
    /\ program = "MatchGuard"
    /\ status = "ok"
    /\ result = Object_String("b")

\* C17: object destructuring with a default binds the name to the
\* attribute when the object has it and it is not Nil, to the default
\* otherwise, and leaves the operand stack as deep as it was:
\* let { a, b = 10 } = { "a": 1 }; a + b is the Int 11.
C17_DestructureDefaults ==
    /\ program \in {"DestructureDefault", "DestructurePresent", "DestructureInCall"}
          => status # "panic"
    /\ (Terminated /\ program = "DestructureDefault") =>
          /\ status = "ok"
          /\ result = Object_Int(11)
    /\ (Terminated /\ program = "DestructurePresent") =>
          /\ status = "ok"
          /\ result = Object_Int(3)
    /\ (Terminated /\ program = "DestructureInCall") =>
          /\ status = "ok"
          /\ lists[result.n] = << Object_Int(1), Object_Int(7) >>

\* C18: a ?? b is a, with b not evaluated, when a is not Nil, and b when a
\* is Nil; it leaves exactly one value and removes none of the values that
\* were on the stack before it.
C18_NullishCoalesce ==
    /\ program \in {"NullishLeft", "NullishNil", "NullishInCall"} => status # "panic"
    /\ (Terminated /\ program = "NullishLeft") =>
          /\ status = "ok"
          /\ GlobalItems("r") = << Object_Int(5), Object_Int(1) >>
          /\ GlobalItems("log") = << >>
    /\ (Terminated /\ program = "NullishNil") =>
          /\ status = "ok"
          /\ result = Object_Int(2)
    /\ (Terminated /\ program = "NullishInCall") =>
          /\ status = "ok"
          /\ lists[result.n] = << Object_Int(5), Object_Int(2) >>

\* C19: after let n1, ..., nk = L, with L a List of at least k items, each
\* ni is bound to item i - 1 of L.
C19_UnpackInOrder ==
    /\ (Terminated /\ program = "UnpackPair") =>
          /\ status = "ok"
          /\ Global("a") = Object_Int(1)
          /\ Global("b") = Object_Int(2)
          /\ lists[result.n] = << Object_Int(1), Object_Int(2) >>
    /\ (Terminated /\ program = "UnpackTriple") =>
          /\ status = "ok"
          /\ lists[result.n] = << Object_Int(4), Object_Int(5), Object_Int(6) >>

\* ------------------------------------------------------------------------
\* A RisorMap driven through its operations. inserted is the sequence of
\* the live keys in the order of their first insertion; last holds the
\* latest operation and what it returned.
\* ------------------------------------------------------------------------
MapKeys == {Object_String("a"), Object_String("b"), Object_Int(1)}

MapValues == {Object_Int(1), Object_Int(2)}

\* The keys a caller can pass: the hashable ones and a List.
AnyKeys == MapKeys \cup {Object_List(0)}

\* The maps that merge is given: up to two entries.
OtherMaps ==
    {RisorMap_new}
    \cup {RisorMap_set(RisorMap_new, k, v) : k \in MapKeys, v \in MapValues}
    \cup {RisorMap_set(RisorMap_set(RisorMap_new, Object_String("a"), v), Object_Int(1), w) :
             v \in MapValues, w \in MapValues}

\* The hash key of key as a string, empty when it has none.
HashName(key) == IF hash_key(key).some THEN hash_key(key).v ELSE ""

\* The keys of the pairs of entries that are not in the map m, in order.
RECURSIVE NewKeys(_, _)
NewKeys(m, entries) ==
    IF entries = << >> THEN << >>
    ELSE (IF RisorMap_has(m, Head(entries)[1]) THEN << >> ELSE << Head(entries)[1] >>)
         \o NewKeys(m, Tail(entries))

InitMap == Init /\ program = "Empty"

\* seq without its elements equal to v
RECURSIVE Without(_, _)
Without(seq, v) ==
    IF seq = << >> THEN << >>
    ELSE IF Head(seq) = v THEN Without(Tail(seq), v)
    ELSE << Head(seq) >> \o Without(Tail(seq), v)

\* RisorMap::set
MapSet(key, value) ==
    /\ risor_map' = RisorMap_set(risor_map, key, value)
    /\ inserted' = IF RisorMap_has(risor_map, key) \/ ~hash_key(key).some
                   THEN inserted ELSE Append(inserted, key)
    /\ last' = [op |-> "set", name |-> HashName(key), res |-> << key, value >>]
    /\ UNCHANGED << vmvars, sm, builder, iter, calls >>

\* RisorMap::delete
MapDelete(key) ==
    /\ risor_map' = RisorMap_delete(risor_map, key)
    /\ inserted' = Without(inserted, key)
    /\ last' = [op |-> "delete", name |-> HashName(key),
                res |-> << RisorMap_has(risor_map, key) >>]
    /\ UNCHANGED << vmvars, sm, builder, iter, calls >>

\* RisorMap::merge
MapMerge(other) ==
    /\ \E entries \in RisorMap_entries(other) :
          /\ risor_map' = RisorMap_merge(risor_map, entries)
          /\ inserted' = inserted \o NewKeys(risor_map, entries)
          /\ last' = [op |-> "merge", name |-> "", res |-> entries]
    /\ UNCHANGED << vmvars, sm, builder, iter, calls >>

\* RisorMap::keys, as the keys method calls it
MapKeysCall ==
    /\ \E out \in RisorMap_keys(risor_map) :
          last' = [op |-> "keys", name |-> "", res |-> out]
    /\ UNCHANGED << vmvars, sm, risor_map, inserted,
                    builder, iter, calls >>

\* RisorMap::values, as the values method calls it
MapValuesCall ==
    /\ \E out \in RisorMap_values(risor_map) :
          last' = [op |-> "values", name |-> "", res |-> out]
    /\ UNCHANGED << vmvars, sm, risor_map, inserted,
                    builder, iter, calls >>

\* RisorMap::entries, as the entries method calls it
MapEntriesCall ==
    /\ \E out \in RisorMap_entries(risor_map) :
          last' = [op |-> "entries", name |-> "", res |-> out]
    /\ UNCHANGED << vmvars, sm, risor_map, inserted,
                    builder, iter, calls >>

\* the each method: the callback is called with the pairs of entries()
MapEachCall ==
    /\ \E out \in RisorMap_entries(risor_map) :
          last' = [op |-> "each", name |-> "", res |-> out]
    /\ UNCHANGED << vmvars, sm, risor_map, inserted,
                    builder, iter, calls >>

NextMap ==
    \/ \E key \in AnyKeys, value \in MapValues : MapSet(key, value)
    \/ \E key \in AnyKeys : MapDelete(key)
    \/ \E other \in OtherMaps : MapMerge(other)
    \/ MapKeysCall
    \/ MapValuesCall
    \/ MapEntriesCall
    \/ MapEachCall

SpecMap == InitMap /\ [][NextMap]_vars

\* The live entries in the order of the first insertion of their keys
LiveInOrder ==
    [i \in 1..Len(inserted) |-> << inserted[i], RisorMap_get(risor_map, inserted[i]).v >>]

\* C20: after any sequence of set and delete, keys(), values(), entries()
\* and each() enumerate the live entries in the order in which their keys
\* were first inserted.
C20_InsertionOrder ==
    /\ last.op = "keys" => last.res = [i \in 1..Len(inserted) |-> LiveInOrder[i][1]]
    /\ last.op = "values" => last.res = [i \in 1..Len(inserted) |-> LiveInOrder[i][2]]
    /\ last.op \in {"entries", "each"} => last.res = LiveInOrder

\* The map the global variable name holds
GlobalMap(name) == lists[Global(name).n]

\* C21: storing into a Map under a key that is not hashable, by a map
\* literal, by index assignment or by the set method, raises a runtime
\* error and leaves the map as it was.
C21_UnhashableKeyRaises ==
    (Terminated /\ program \in {"KeyListLiteral", "KeyListStore", "KeyMapSet"}) =>
        /\ status = "error"
        /\ program # "KeyListLiteral" =>
              /\ RisorMap_len(GlobalMap("m")) = 1
              /\ RisorMap_get(GlobalMap("m"), Object_String("a")) = Some(Object_Int(1))

\* C22: LoadAttr on a Map that has the attribute name as a String key
\* pushes that key's value, also when the name is that of a Map method; the
\* bound method is pushed only when the map has no such key.
C22_MapKeyBeforeMethod ==
    /\ (Terminated /\ program = "AttrKey") => status = "ok" /\ result = Object_Int(7)
    /\ (Terminated /\ program = "AttrMethodKey") => status = "ok" /\ result = Object_Int(5)
    /\ (Terminated /\ program = "AttrMethod") => status = "ok" /\ result.t = "builtin"

\* ------------------------------------------------------------------------
\* Argument binding at closure entry
\* ------------------------------------------------------------------------
ArgPrograms == {"ArgsExtra", "ArgsMissing", "ArgsExact"}

\* The callee's frame has just been pushed by the call.
AtCalleeEntry ==
    /\ program \in ArgPrograms
    /\ status = "running"
    /\ Len(frames) = 2
    /\ current_frame.ip = 0

CalleeParams == Len(AstOf(program)[1].value.params)

CallArgs == AstOf(program)[2].expr.args

\* C23: at entry of a closure with p parameters called with k arguments,
\* local i holds argument i for i < min(k, p) and every other local (the
\* parameters from k on and the locals that are not parameters) is Nil, so
\* no argument with index >= p is held by a local.
C23_ArgumentsBound ==
    AtCalleeEntry =>
        \A i \in 1..Len(current_frame.locals) :
            current_frame.locals[i] =
                IF i <= CalleeParams /\ i <= Len(CallArgs)
                THEN Object_Int(CallArgs[i].value)
                ELSE Object_Nil

\* ------------------------------------------------------------------------
\* call_function
\* ------------------------------------------------------------------------

\* The execute started by call_function is about to return to the builtin
\* that made the call.
CallFunctionReturns ==
    /\ status = "running"
    /\ native # << >>
    /\ frames # << >>
    /\ is_at_end \/ Len(frames) < min_frame_depth

\* The operand-stack depth call_function returns with: execute pops the
\* value when the frame is at its end and reads it otherwise.
SpAtReturn == IF is_at_end /\ sp > 0 THEN sp - 1 ELSE sp

\* C24: when call_function returns from a closure, the frame stack is as
\* deep as before the call (one less than min_frame_depth) and the operand
\* stack is as deep as it was when the call was made.
C24_CallFunctionRestores ==
    CallFunctionReturns =>
        /\ Len(frames) = min_frame_depth - 1
        /\ SpAtReturn = native[Len(native)].sp

\* ------------------------------------------------------------------------
\* Slices
\* ------------------------------------------------------------------------
SlicePrograms == {"SliceClamped", "SliceTail", "SliceBeyond", "SliceReversed",
                  "SliceString", "SliceStringReversed"}

SliceOf(name) == AstOf(name)[1].expr

\* The elements of the sliced literal.
SlicedItems(expr) ==
    IF expr.object.k = "List"
    THEN [i \in 1..Len(expr.object.items) |-> Object_Int(expr.object.items[i].value)]
    ELSE Chars(expr.object.value)

\* A bound brought into 0..n: from the end when negative, n when beyond.
Clamped(bound, n, default) ==
    IF ~bound.some THEN default
    ELSE IF bound.v.value < 0
         THEN (IF n + bound.v.value < 0 THEN 0 ELSE n + bound.v.value)
         ELSE (IF bound.v.value > n THEN n ELSE bound.v.value)

\* The elements of the clamped range, none when the range is empty.
ClampedRange(items, lo, hi) ==
    [i \in 1..(IF hi > lo THEN hi - lo ELSE 0) |-> items[lo + i]]

ExpectedSlice(expr) ==
    ClampedRange(SlicedItems(expr),
                 Clamped(expr.low, Len(SlicedItems(expr)), 0),
                 Clamped(expr.high, Len(SlicedItems(expr)), Len(SlicedItems(expr))))

\* C25: a slice of a List or String with Int or Nil bounds ends normally and
\* yields the elements of the clamped range, for bounds that are negative,
\* beyond the length, or out of order (the range is then empty).
C25_SliceNeverFails ==
    (Terminated /\ program \in SlicePrograms) =>
        /\ status = "ok"
        /\ IF SliceOf(program).object.k = "List"
           THEN result.t = "list" /\ lists[result.n] = ExpectedSlice(SliceOf(program))
           ELSE result = Object_String(Collect(ExpectedSlice(SliceOf(program))))

\* ------------------------------------------------------------------------
\* Subscripts
\* ------------------------------------------------------------------------
IsIndexProgram ==
    \E j \in 1..Len(IndexPrograms) : IndexPrograms[j].name = program

IndexedItems ==
    LET object == AstOf(program)[1].expr.object
    IN IF object.k = "List"
       THEN [i \in 1..Len(object.items) |-> Object_Int(object.items[i].value)]
       ELSE [i \in 1..Len(Chars(object.value)) |-> Object_String(Chars(object.value)[i])]

IndexUsed == AstOf(program)[1].expr.index.value

\* C26: subscripting a List or String of length n with i yields element i
\* when 0 <= i < n, element n + i when -n <= i < 0, and an index out of range
\* error for every other i.
C26_SubscriptFromEitherEnd ==
    (Terminated /\ IsIndexProgram) =>
        LET n == Len(IndexedItems)
            i == IndexUsed
        IN CASE 0 <= i /\ i < n -> status = "ok" /\ result = IndexedItems[i + 1]
             [] -n <= i /\ i < 0 -> status = "ok" /\ result = IndexedItems[n + i + 1]
             [] OTHER ->
                  /\ status = "error"
                  /\ result \in {Object_Error("list index out of range: " \o ToString(i)),
                                 Object_Error("string index out of range: " \o ToString(i))}

C26_Witness ==
    /\ Terminated
    /\ program = "StringIndex-3"
    /\ result = Object_String("a")

\* ------------------------------------------------------------------------
\* Operand slots
\* ------------------------------------------------------------------------

\* The opcodes that move the instruction pointer or the frames themselves:
\* jumps, calls, returns and the exception transfers.
TransferOps ==
    {Op_Call, Op_ReturnValue, Op_JumpForward, Op_PopJumpForwardIfFalse,
     Op_PopJumpForwardIfNotNil, Op_Throw, Op_EndFinally}

\* The instruction about to run is not a transfer and completes.
StraightStep ==
    /\ Fetches
    /\ CurOp \in Opcodes \ TransferOps
    /\ ~WouldPanic
    /\ status' \in {"running", "ok"}
    /\ native' = native

C29_InsertVariableSlots ==
    [][last'.op = "insert_variable" =>
          LET cur == sm[Len(sm)]
              new == sm'[Len(sm)]
              ret == insert_variable(cur, last'.name).symbol
          IN /\ Len(sm') = Len(sm)
             /\ IF last'.name \in DOMAIN cur.symbols_by_name
                THEN /\ ret = cur.symbols_by_name[last'.name]
                     /\ cur.symbols[ret.index + 1].name = last'.name
                     /\ new.symbols = cur.symbols
                     /\ local_count(new) = local_count(cur)
                ELSE /\ ret.index = Len(cur.symbols)
                     /\ new.symbols = Append(cur.symbols, ret)
                     /\ new.symbols_by_name[last'.name] = ret
                     /\ local_count(new) = local_count(cur) + 1]_vars

\* The second name of a scope has been given slot 1.
C29_Witness ==
    /\ last.op = "insert_variable"
    /\ Len(sm[Len(sm)].symbols) = 2
    /\ sm[Len(sm)].symbols[2] = Symbol(last.name, 1, FALSE)

\* ------------------------------------------------------------------------
\* A constant pool driven through add_constant
\* ------------------------------------------------------------------------
MaxPool == 3

PoolValues ==
    {Constant_Int(1), Constant_Int(2), Constant_String("1"),
     Constant_Float(F64_Zero), Constant_Float(F64_NegZero), Constant_Float(F64_NaN),
     Constant_Function(1), Constant_Function(2)}

InitPool == Init /\ program = "Empty"

InPool(b, value) == \E i \in 1..Len(b.constants) : b.constants[i] = value

\* CodeBuilder::add_constant
AddConstant(value) ==
    /\ Len(builder.constants) < MaxPool \/ InPool(builder, value)
    /\ builder' = add_constant(builder, value).builder
    /\ last' = [op |-> "add_constant", name |-> "",
                res |-> [value |-> value, index |-> add_constant(builder, value).index]]
    /\ UNCHANGED << vmvars, sm, risor_map, inserted, iter, calls >>

NextPool == \E value \in PoolValues : AddConstant(value)

SpecPool == InitPool /\ [][NextPool]_vars

\* No two slots hold equal constants that are not functions, and no two
\* slots hold the same function unit.
NoDuplicates(constants) ==
    \A i, j \in 1..Len(constants) : i # j => constants[i] # constants[j]

\* C28: after an add_constant the pool holds no two equal constants (a
\* Float equal by bit pattern, a function by code unit); adding a value the
\* pool holds returns the index of its slot and leaves the pool as it is;
\* adding any other value, a further function unit included, returns a new
\* slot at the end.
C28_ConstantsDeduplicated ==
    [][last'.op = "add_constant" =>
          LET value == last'.res.value
              index == last'.res.index
          IN /\ NoDuplicates(builder'.constants)
             /\ builder'.constants[index + 1] = value
             /\ IF InPool(builder, value)
                THEN builder'.constants = builder.constants
                ELSE /\ index = Len(builder.constants)
                     /\ builder'.constants = Append(builder.constants, value)]_vars

\* The NaN held by the first slot was added again after other constants
\* and its slot was returned.
C28_Witness ==
    /\ last.op = "add_constant"
    /\ last.res.value = Constant_Float(F64_NaN)
    /\ last.res.index = 0
    /\ Len(builder.constants) = 3
    /\ builder.constants[2] = Constant_Float(F64_NegZero)
    /\ builder.constants[3] = Constant_Float(F64_Zero)

\* ------------------------------------------------------------------------
\* An iterator driven through its operations
\* ------------------------------------------------------------------------
MaxItems == 3

IterValues == {Object_Int(1), Object_Int(2)}

\* The item lists an iterator is created over
IterItems == UNION {[1..n -> IterValues] : n \in 0..MaxItems}

InitIter == Init /\ program = "Empty"

\* RisorIter::new
IterNew(items) ==
    /\ last.op = "new"
    /\ iter' = RisorIter_new(items)
    /\ calls' = 0
    /\ last' = [op |-> "iter", name |-> "", res |-> << >>]
    /\ UNCHANGED << vmvars, sm, risor_map, inserted, builder >>

\* RisorIter::next
IterNext ==
    /\ last.op # "new"
    /\ calls < Len(iter.items) + 2
    /\ iter' = RisorIter_next(iter).iter
    /\ calls' = calls + 1
    /\ last' = [op |-> "next", name |-> "", res |-> RisorIter_next(iter).item]
    /\ UNCHANGED << vmvars, sm, risor_map, inserted, builder >>

\* RisorIter::remaining
IterRemaining ==
    /\ last.op # "new"
    /\ last' = [op |-> "remaining", name |-> "", res |-> RisorIter_remaining(iter)]
    /\ UNCHANGED << vmvars, sm, risor_map, inserted, builder, iter, calls >>

NextIter ==
    \/ \E items \in IterItems : IterNew(items)
    \/ IterNext
    \/ IterRemaining

SpecIter == InitIter /\ [][NextIter]_vars

\* The number of items the calls made so far have returned
Returned == IF calls < Len(iter.items) THEN calls ELSE Len(iter.items)

\* C30: the k-th next() of an iterator over n items returns item k - 1 when
\* k <= n and no value when k > n; remaining() is n minus the number of
\* items returned so far and never below zero.
C30_IteratorYieldsInOrder ==
    /\ last.op = "next" =>
          last.res = IF calls <= Len(iter.items) THEN Some(iter.items[calls]) ELSE None
    /\ last.op = "remaining" => last.res = Len(iter.items) - Returned
    /\ last.op \in {"iter", "next", "remaining"} =>
          /\ RisorIter_remaining(iter) = Len(iter.items) - Returned
          /\ RisorIter_remaining(iter) >= 0

\* The third next() of an iterator over two items gave no value, and
\* nothing remains.
C30_Witness ==
    /\ last.op = "next"
    /\ calls = 3
    /\ iter.items = << Object_Int(1), Object_Int(2) >>
    /\ last.res = None
    /\ RisorIter_remaining(iter) = 0

\* ------------------------------------------------------------------------
\* Handlers and returning frames
\* ------------------------------------------------------------------------

\* C31: while the machine runs, every handler on the handler stack records
\* a frame depth that the frame stack still has: the frame that pushed it
\* has not returned.
C31_HandlersOfLiveFrames ==
    (status = "running" /\ frames # << >>) =>
        \A i \in 1..Len(exception_handlers) :
            exception_handlers[i].frame_depth <= Len(frames)

\* ------------------------------------------------------------------------
\* Captures across two function boundaries
\* ------------------------------------------------------------------------

\* C32: the innermost function of DeepFirst, DeepSecond and DeepBoth reads
\* the variables of the outermost one through the cells the intermediate
\* function passes on: the MakeCell of the intermediate function names its
\* own upvalue for the variable, so the reads give a = 1 and b = 2 and no
\* index is out of range.
C32_IntermediateCell ==
    Terminated =>
        /\ program = "DeepFirst" => status = "ok" /\ result = Object_Int(1)
        /\ program = "DeepSecond" => status = "ok" /\ result = Object_Int(2)
        /\ program = "DeepBoth"
              => /\ status = "ok"
                 /\ result.t = "list"
                 /\ lists[result.n] = << Object_Int(2), Object_Int(1) >>

\* ------------------------------------------------------------------------
\* The operand stack across a return
\* ------------------------------------------------------------------------

\* A frame other than the outermost one returns.
ClosureReturns ==
    /\ Fetches
    /\ CurOp = Op_ReturnValue
    /\ ~WouldPanic
    /\ Len(frames) > 1

\* C33: when a closure returns, the operand stack is what the caller had
\* below the callee and its arguments (the depth the frame recorded as its
\* base) with the return value on top; what the callee left is discarded.
C33_ReturnDiscardsCalleeValues ==
    [][ClosureReturns =>
          /\ sp' = current_frame.bp + 1
          /\ stack'[sp'] = peek(St, 0)
          /\ \A i \in 1..current_frame.bp : stack'[i] = stack[i]]_vars

\* ------------------------------------------------------------------------
\* A callback that throws under a try of the caller
\* ------------------------------------------------------------------------

\* C34: in TryMapThrow the callback of map throws for the first item and
\* the try around the map call catches it: map calls the callback for no
\* further item (log holds 1 only) and the run goes on in the catch region
\* instead of ending with the error.
C34_CaughtCallbackStopsBuiltin ==
    (Terminated /\ program = "TryMapThrow") =>
        /\ status = "ok"
        /\ GlobalItems("log") = << Object_Int(1) >>

\* ------------------------------------------------------------------------
\* Global slots
\* ------------------------------------------------------------------------

\* C35: while a unit runs, the index the compiler gave to each of its
\* global names (the operand of its LoadGlobal and StoreGlobal) is the
\* index the name-to-index map of the VM holds for that name.
C35_GlobalSlotsAgree ==
    (status = "running" /\ code.ok) =>
        \A i \in 1..Len(code.main.global_names) :
            /\ code.main.global_names[i] \in DOMAIN global_names
            /\ global_names[code.main.global_names[i]] = i - 1

\* ------------------------------------------------------------------------
\* The upvalues of a closure
\* ------------------------------------------------------------------------

\* A LoadClosure is about to run and completes.
LoadClosureStep ==
    /\ Fetches
    /\ CurOp = Op_LoadClosure
    /\ ~WouldPanic
    /\ status' = "running"

\* The closure on top of the stack holds the k cells that were on top of
\* the stack before, the first pushed first.
UpvaluesAsPushed ==
    LET k == Operand(2)
        closure == stack'[sp']
    IN /\ closure.t = "closure"
       /\ Len(closure.fv) = k
       /\ \A j \in 1..k : closure.fv[j] = stack[sp - k + j].n

\* The innermost function of DeepBoth reads b with LoadFree 0 and a with
\* LoadFree 1: its upvalues are the cells of b = 2 and of a = 1.
UpvaluesOfDeepBoth ==
    (program = "DeepBoth" /\ stack'[sp'].n = 1) =>
        /\ cells'[stack'[sp'].fv[1]] = Object_Int(2)
        /\ cells'[stack'[sp'].fv[2]] = Object_Int(1)

\* C36: LoadClosure(c, k) leaves a closure with k upvalues, upvalue j being
\* the cell the j-th of the preceding MakeCell instructions pushed, and that
\* cell is the one of the variable the LoadFree j of the callee reads.
C36_ClosureUpvalues ==
    [][LoadClosureStep => UpvaluesAsPushed /\ UpvaluesOfDeepBoth]_vars

\* ------------------------------------------------------------------------
\* Const bindings and the stores that are not assignments
\* ------------------------------------------------------------------------
StoresToConst == {"ConstPostfix", "ConstRelet", "ConstPostfixLocal"}

\* C37: a program that applies ++ or -- to a const name, or declares the
\* name again with let in the same scope, is rejected by the compiler or
\* ends with the const still holding the value it was bound to, 1.
C37_ConstKeepsValue ==
    (Terminated /\ program \in StoresToConst) =>
        \/ ~code.ok /\ status = "compile_error"
        \/ status = "ok" /\ result = Object_Int(1)

\* The function scope that encloses the current scope: the innermost scope
\* that is not a block.
EnclosingFunction(sc) ==
    CHOOSE j \in 1..Len(sc) :
        /\ ~sc[j].is_block
        /\ \A k \in (j + 1)..Len(sc) : sc[k].is_block

\* The names that resolve to Local from the current scope.
LocalNames == {n \in Names : IsSome(resolve(sm, n).res)
                             /\ resolve(sm, n).res.scope = "Local"}

\* C38: inside one function, two different names that both resolve to Local
\* have different slot indices, and each index is below the local count of
\* the function scope.
C38_LocalSlotsDistinct ==
    /\ \A a \in LocalNames : \A b \in LocalNames :
           a # b => resolve(sm, a).res.symbol.index # resolve(sm, b).res.symbol.index
    /\ \A a \in LocalNames :
           resolve(sm, a).res.symbol.index < local_count(sm[EnclosingFunction(sm)])

\* A step that leaves the same frame on top of the frame stack.
SameFrame ==
    /\ status = "running" /\ status' = "running"
    /\ program' = program
    /\ Len(frames') = Len(frames)
    /\ Len(frames) > 0

\* C39: a run of compiled code can only go on for a bounded number of steps:
\* a step that stays in a frame never moves its instruction pointer
\* backward, whether by a jump or by a transfer to a catch or finally
\* target, and the frame stack never grows beyond MAX_FRAME_DEPTH.
C39_ForwardOnly ==
    [][/\ SameFrame => frames'[Len(frames')].ip >= current_frame.ip
       /\ Len(frames') <= MAX_FRAME_DEPTH]_vars

\* C40: after every set, delete and merge the key table and the value table
\* of the map hold the same hash keys, len() is the number of live keys,
\* and get(k) returns the value of the latest set(k, v) that no delete(k)
\* followed, or nothing: the value just set or merged in under k, and
\* nothing for the key just deleted.
C40_MapTablesAndGet ==
    /\ DOMAIN risor_map.keys = DOMAIN risor_map.data
    /\ RisorMap_len(risor_map) = Len(inserted)
    /\ last.op = "set" => RisorMap_get(risor_map, last.res[1]) = Some(last.res[2])
    /\ last.op = "delete" =>
           \A k \in AnyKeys : HashName(k) = last.name => RisorMap_get(risor_map, k) = None
    /\ last.op = "merge" =>
           \A i \in 1..Len(last.res) :
               RisorMap_get(risor_map, last.res[i][1]) = Some(last.res[i][2])

\* What get(k) returns after a step if every set is kept until a delete of
\* its key: the value just set or merged in under k, nothing when k was
\* just deleted, and what get(k) returned before otherwise.
GetAfter(k) ==
    CASE last'.op = "set" /\ last'.res[1] = k -> Some(last'.res[2])
      [] last'.op = "delete" /\ HashName(k) = last'.name -> None
      [] last'.op = "merge" /\ (\E i \in 1..Len(last'.res) : last'.res[i][1] = k) ->
            Some(last'.res[CHOOSE i \in 1..Len(last'.res) : last'.res[i][1] = k][2])
      [] OTHER -> RisorMap_get(risor_map, k)

\* For the keys that have a hash key the tables agree after every step and
\* get follows the history of sets, deletes and merges.
HashableKeysFollowHistory ==
    [][/\ DOMAIN risor_map'.keys = DOMAIN risor_map'.data
       /\ RisorMap_len(risor_map') = Len(inserted')
       /\ \A k \in MapKeys : RisorMap_get(risor_map', k) = GetAfter(k)]_vars
====
